---- MODULE Spec2Model ----
(***************************************************************************)
(* Streaming indicator engine of QuantTrader: the timeframe resampler      *)
(* (quanttrader/indicators/resampler.py), the incremental indicators and   *)
(* the IndicatorEngine (quanttrader/indicators/incremental.py), and the    *)
(* CircuitBreaker of the data center (quanttrader/data/circuit_breaker.py). *)
(*                                                                         *)
(* Encodings.  Optional[T]: None is <<>>, a present value x is <<x>>.      *)
(* A timeframe string "<n><unit>" is the pair <<n, unit>>.  Prices and     *)
(* volumes are integers; float("-inf") / float("inf") are the sentinels    *)
(* NegInf / PosInf, below / above every price of the model.                *)
(***************************************************************************)
EXTENDS Integers, Sequences, FiniteSets, TLC

\* Resampler: the object rs and the history of its use: the bars fed to
\* add(), the bars returned, the last returned value, the periods whose
\* pending aggregate a call dropped without returning it, the number of
\* flush() calls, the number of bars fed before the last flush(), and whether
\* the last call was an add() that met a pending aggregate of another period
\* with a bar that closes its own period.
\* Engine: the object eng, a second engine twin that is given the same calls
\* with its own clock readings, and the history of their use: the bar of the
\* last update() (lastBar), whether the last call raised (err), the number of
\* bars the producer sent per timeframe (sent), the number of
\* register_requirements() calls (regs), the timeframe string each built
\* indicator was declared with (declared) and whether the last call was a
\* reset() of an engine holding indicators and timestamps (resetUsed).
\* Indicator: a single indicator object (ind); fed holds the bars it was
\* updated with.
\* Calls: op is the last operation called, exc the exception that left it
\* (None when it returned), arg the argument of the last constructor or
\* function call and out the value the last function call returned.
\* Breaker: the object cb, the value time.time() returns (clock), and the
\* history of its use: the number of record_failure() calls since the last
\* record_success(), reset() or the construction (streak), the clock
\* reading of the record_failure() that opened it last (openedAt), of the
\* last record_failure() (failedAt) and of the record_failure() that moved it
\* from HALF_OPEN to OPEN last (reopenedAt), and the number of
\* record_success() calls made since it opened last and no earlier than
\* timeout seconds after that (okSince).
VARIABLES rs, fed, emitted, ret, superseded, flushes, flushedAt, both,
          eng, twin, lastBar, err, sent, regs, declared, resetUsed, ind,
          op, exc, arg, out, cb, clock, streak, openedAt, failedAt,
          reopenedAt, okSince, lru, dc, used, stored, gone, sets

rvars == <<rs, fed, emitted, ret, superseded, flushes, flushedAt, both>>
evars == <<eng, twin, lastBar, err, sent, regs, declared, resetUsed>>
cvars == <<exc, arg, out>>
hvars == <<streak, openedAt, failedAt, reopenedAt, okSince>>
bvars == <<cb, clock, hvars>>
kvars == <<lru, dc, used, stored, gone, sets>>
vars == <<rvars, evars, cvars, bvars, kvars, ind, op>>

None == <<>>
Some(x) == <<x>>

\* ---------------------------------------------------------------- bounds
MaxSlot == 6
MaxBars == 5
MaxBarsAny == 3
MaxSlotAny == 4
MaxFlushes == 1
MaxMinute == 2
MaxRegs == 1
MaxIndBars == 6
MaxBarsFlushed == 3
MaxFlushCalls == 3
MaxLifeRegs == 2
MaxClock == 3
MaxFailures == 4
MaxSuccesses == 2
MaxLifeBars == 2

\* ------------------------------------------------------ float sentinels
NegInf == -1000000
PosInf == 1000000
TfError == -1
\* a bar's close holding None instead of a number (the dataclass does not
\* check the types of its fields)
NullPrice == -2000000

Max(a, b) == IF a >= b THEN a ELSE b
Min(a, b) == IF a <= b THEN a ELSE b

\* ------------------------------------------------------------ timeframes
\* str.lower() on the unit letter of a timeframe string (digits are unchanged)
LowerChar(c) ==
  CASE c = "M" -> "m"
    [] c = "H" -> "h"
    [] c = "D" -> "d"
    [] c = "W" -> "w"
    [] OTHER -> c

\* str.lower() on a timeframe string; <<>> is the empty string
lower(tf) == IF tf = <<>> THEN <<>> ELSE <<tf[1], LowerChar(tf[2])>>

\* str.lower() on an indicator type tag
lower_tag(t) ==
  CASE t = "EMA" -> "ema"
    [] t = "RSI" -> "rsi"
    [] t = "MACD" -> "macd"
    [] t = "BOLL" -> "boll"
    [] OTHER -> t

\* _tf_to_seconds: seconds of a timeframe string, TfError for ValueError
tf_to_seconds(tf) ==
  LET t == lower(tf) IN
  CASE t = <<>> -> TfError
    [] t[2] = "m" -> t[1] * 60
    [] t[2] = "h" -> t[1] * 3600
    [] t[2] = "d" -> t[1] * 86400
    [] t[2] = "w" -> t[1] * 7 * 86400
    [] OTHER -> TfError

\* calculate_resample_ratio: the ratio, TfError for ValueError
calculate_resample_ratio(source_tf, target_tf) ==
  LET source_seconds == tf_to_seconds(source_tf)
      target_seconds == tf_to_seconds(target_tf) IN
  IF source_seconds = TfError \/ target_seconds = TfError THEN TfError
  ELSE IF target_seconds < source_seconds THEN TfError
  ELSE IF target_seconds % source_seconds # 0 THEN TfError
  ELSE target_seconds \div source_seconds

\* ------------------------------------------------------------------ bars
IndicatorBar(ts, o, h, l, c, v, tf) ==
  [timestamp |-> ts, open |-> o, high |-> h, low |-> l, close |-> c,
   volume |-> v, timeframe |-> tf]

\* price/volume shapes of the source bars (low <= open,close <= high)
BarShapes ==
  { [open |-> 10, high |-> 12, low |-> 9, close |-> 11, volume |-> 1],
    [open |-> 13, high |-> 15, low |-> 7, close |-> 14, volume |-> 2] }

\* ------------------------------------------------------------- resampler
\* OhlcvResampler(source_tf, target_tf, ratio) after __post_init__
OhlcvResampler(source_tf, target_tf, ratio) ==
  [source_tf |-> source_tf, target_tf |-> target_tf, ratio |-> ratio,
   source_seconds_ms |-> tf_to_seconds(source_tf) * 1000,
   target_seconds_ms |-> tf_to_seconds(target_tf) * 1000,
   current_period_start |-> None,
   pending_open |-> None,
   pending_high |-> NegInf,
   pending_low |-> PosInf,
   pending_close |-> 0,
   pending_volume |-> 0,
   pending_ts |-> 0,
   count |-> 0]

get_period_start(r, timestamp_ms) ==
  (timestamp_ms \div r.target_seconds_ms) * r.target_seconds_ms

\* mutant: a bar ending exactly at the period end is not the period's last
is_period_last_bar_strict(r, bar_timestamp_ms) ==
  LET period_start == get_period_start(r, bar_timestamp_ms)
      period_end == period_start + r.target_seconds_ms
      next_bar_ts == bar_timestamp_ms + r.source_seconds_ms IN
  next_bar_ts > period_end

is_period_last_bar(r, bar_timestamp_ms) ==
  LET period_start == get_period_start(r, bar_timestamp_ms)
      period_end == period_start + r.target_seconds_ms
      next_bar_ts == bar_timestamp_ms + r.source_seconds_ms IN
  next_bar_ts >= period_end

create_output_bar(r) ==
  IF r.pending_open = None THEN None
  ELSE Some(IndicatorBar(r.pending_ts, r.pending_open[1], r.pending_high,
                         r.pending_low, r.pending_close, r.pending_volume,
                         r.target_tf))

\* mutant: _reset leaves the running high in place
reset_pending_keeps_high(r) ==
  [r EXCEPT !.current_period_start = None,
            !.pending_open = None,
            !.pending_low = PosInf,
            !.pending_close = 0,
            !.pending_volume = 0,
            !.count = 0]

\* mutant: _reset leaves the count of folded bars in place
reset_pending_keeps_count(r) ==
  [r EXCEPT !.current_period_start = None,
            !.pending_open = None,
            !.pending_high = NegInf,
            !.pending_low = PosInf,
            !.pending_close = 0,
            !.pending_volume = 0]

\* _reset: everything but _pending_ts
reset_pending(r) ==
  [r EXCEPT !.current_period_start = None,
            !.pending_open = None,
            !.pending_high = NegInf,
            !.pending_low = PosInf,
            !.pending_close = 0,
            !.pending_volume = 0,
            !.count = 0]

\* mutant: only a bar of a later period leaves the pending period
enters_new_period_forward(r, bar) ==
  /\ r.current_period_start # None
  /\ get_period_start(r, bar.timestamp) > r.current_period_start[1]
  /\ r.pending_open # None

\* the prior-period branch of add(): a pending aggregate of another period
enters_new_period(r, bar) ==
  /\ r.current_period_start # None
  /\ Some(get_period_start(r, bar.timestamp)) # r.current_period_start
  /\ r.pending_open # None

\* mutant: the aggregate is stamped with its first bar's timestamp
fold_bar_stamps_bar(r, bar) ==
  LET bar_period_start == get_period_start(r, bar.timestamp)
      r1 == [r EXCEPT !.current_period_start = Some(bar_period_start)]
      r2 == IF r1.pending_open = None
            THEN [r1 EXCEPT !.pending_open = Some(bar.open),
                            !.pending_ts = bar.timestamp]
            ELSE r1 IN
  [r2 EXCEPT !.pending_high = Max(@, bar.high),
             !.pending_low = Min(@, bar.low),
             !.pending_close = bar.close,
             !.pending_volume = @ + bar.volume,
             !.count = @ + 1]

fold_bar(r, bar) ==
  LET bar_period_start == get_period_start(r, bar.timestamp)
      r1 == [r EXCEPT !.current_period_start = Some(bar_period_start)]
      r2 == IF r1.pending_open = None
            THEN [r1 EXCEPT !.pending_open = Some(bar.open),
                            !.pending_ts = bar_period_start]
            ELSE r1 IN
  [r2 EXCEPT !.pending_high = Max(@, bar.high),
             !.pending_low = Min(@, bar.low),
             !.pending_close = bar.close,
             !.pending_volume = @ + bar.volume,
             !.count = @ + 1]

\* mutant: the aggregate of a closed period stays pending
add_keeps_closed(r, bar) ==
  LET prior == enters_new_period(r, bar)
      result1 == IF prior THEN create_output_bar(r) ELSE None
      r1 == IF prior THEN reset_pending(r) ELSE r
      r2 == fold_bar(r1, bar)
      last == is_period_last_bar(r2, bar.timestamp) IN
  [self |-> r2,
   result |-> IF last THEN create_output_bar(r2) ELSE result1]

\* mutant: the prior period's aggregate is returned in preference
add_prior_wins(r, bar) ==
  LET prior == enters_new_period(r, bar)
      result1 == IF prior THEN create_output_bar(r) ELSE None
      r1 == IF prior THEN reset_pending(r) ELSE r
      r2 == fold_bar(r1, bar)
      last == is_period_last_bar(r2, bar.timestamp) IN
  [self |-> IF last THEN reset_pending(r2) ELSE r2,
   result |-> IF prior THEN result1
              ELSE IF last THEN create_output_bar(r2) ELSE None]

\* mutant: a period is emitted only when a bar of another period arrives
add_lagged(r, bar) ==
  LET prior == enters_new_period(r, bar)
      result1 == IF prior THEN create_output_bar(r) ELSE None
      r1 == IF prior THEN reset_pending(r) ELSE r
      r2 == fold_bar(r1, bar) IN
  [self |-> r2, result |-> result1]

\* OhlcvResampler.add: the object after the call and the value returned
add(r, bar) ==
  LET prior == enters_new_period(r, bar)
      result1 == IF prior THEN create_output_bar(r) ELSE None
      r1 == IF prior THEN reset_pending(r) ELSE r
      r2 == fold_bar(r1, bar)
      last == is_period_last_bar(r2, bar.timestamp) IN
  [self |-> IF last THEN reset_pending(r2) ELSE r2,
   result |-> IF last THEN create_output_bar(r2) ELSE result1]

\* mutant: flush() returns the pending aggregate and keeps it pending
flush_keeps_pending(r) ==
  LET result == create_output_bar(r) IN
  [self |-> r, result |-> result]

\* OhlcvResampler.flush
flush(r) ==
  LET result == create_output_bar(r) IN
  [self |-> IF result # None THEN reset_pending(r) ELSE r,
   result |-> result]

\* ------------------------------------------------- float arithmetic
\* A float is an exact rational <<numerator, denominator>>, denominator > 0,
\* in lowest terms.
Abs(x) == IF x < 0 THEN -x ELSE x

RECURSIVE GCD(_, _)
GCD(a, b) == IF b = 0 THEN a ELSE GCD(b, a % b)

Norm(n, d) ==
  LET g == GCD(Abs(n), Abs(d))
      sgn == IF d < 0 THEN -1 ELSE 1 IN
  <<(sgn * n) \div g, (sgn * d) \div g>>

Q(n) == <<n, 1>>
QAdd(a, b) ==
  LET l == (a[2] \div GCD(a[2], b[2])) * b[2] IN
  Norm(a[1] * (l \div a[2]) + b[1] * (l \div b[2]), l)
QNeg(a) == <<-a[1], a[2]>>
QSub(a, b) == QAdd(a, QNeg(b))
QMul(a, b) ==
  LET g1 == GCD(Abs(a[1]), b[2])
      g2 == GCD(Abs(b[1]), a[2])
      h1 == IF g1 = 0 THEN 1 ELSE g1
      h2 == IF g2 = 0 THEN 1 ELSE g2 IN
  Norm((a[1] \div h1) * (b[1] \div h2), (a[2] \div h2) * (b[2] \div h1))
QDiv(a, b) == QMul(a, Norm(b[2], b[1]))
QLe(a, b) == QSub(a, b)[1] <= 0
QLt(a, b) == QSub(a, b)[1] < 0
QMax(a, b) == IF QLe(b, a) THEN a ELSE b

\* ---------------------------------------------------------- dictionaries
Put(d, k, v) == [x \in (DOMAIN d) \cup {k} |-> IF x = k THEN v ELSE d[x]]
Get(d, k, default) == IF k \in DOMAIN d THEN d[k] ELSE default
EmptyDict == [x \in {} |-> 0]

\* ------------------------------------------------------------ indicators
IndicatorRequirement(id, type, timeframe, params) ==
  [id |-> id, type |-> type, timeframe |-> timeframe, params |-> params]

\* constructors: a ValueError raised by __init__, its message as the
\* sequence of the fragments it is formatted from
ValueError(message) ==
  [ok |-> FALSE, type |-> "ValueError", message |-> message]
Built(indicator) == [ok |-> TRUE, indicator |-> indicator]

EMAIndicator(requirement) ==
  LET period == Get(requirement.params, "period", 0) IN
  IF period <= 0 THEN ValueError(<<"EMA period must be positive">>)
  ELSE Built([class |-> "EMAIndicator", requirement |-> requirement,
              bar_count |-> 0, last_bar_ts |-> None,
              period |-> period, alpha |-> Norm(2, period + 1),
              ema |-> None, seed_sum |-> Q(0)])

RSIIndicator(requirement) ==
  LET period == Get(requirement.params, "period", 0) IN
  IF period <= 0 THEN ValueError(<<"RSI period must be positive">>)
  ELSE Built([class |-> "RSIIndicator", requirement |-> requirement,
              bar_count |-> 0, last_bar_ts |-> None,
              period |-> period, prev_close |-> None,
              avg_gain |-> None, avg_loss |-> None,
              gain_sum |-> Q(0), loss_sum |-> Q(0), change_count |-> 0])

\* _EMAState(period), period > 0
EMAState(period) ==
  [period |-> period, alpha |-> Norm(2, period + 1), value |-> None,
   seed_sum |-> Q(0), count |-> 0]

EMAState_is_ready(e) == e.value # None

\* mutant: the seed is taken one bar late
EMAState_update_late(e, price) ==
  LET e1 == [e EXCEPT !.count = @ + 1] IN
  IF e1.value = None
  THEN LET e2 == [e1 EXCEPT !.seed_sum = QAdd(@, price)] IN
       IF e2.count = e2.period + 1
       THEN [e2 EXCEPT !.value = Some(QDiv(e2.seed_sum, Q(e2.period)))]
       ELSE e2
  ELSE [e1 EXCEPT !.value =
          Some(QAdd(QMul(QSub(price, e1.value[1]), e1.alpha), e1.value[1]))]

EMAState_update(e, price) ==
  LET e1 == [e EXCEPT !.count = @ + 1] IN
  IF e1.value = None
  THEN LET e2 == [e1 EXCEPT !.seed_sum = QAdd(@, price)] IN
       IF e2.count = e2.period
       THEN [e2 EXCEPT !.value = Some(QDiv(e2.seed_sum, Q(e2.period)))]
       ELSE e2
  ELSE [e1 EXCEPT !.value =
          Some(QAdd(QMul(QSub(price, e1.value[1]), e1.alpha), e1.value[1]))]

MACDIndicator(requirement) ==
  LET fast_period == Get(requirement.params, "fast", 12)
      slow_period == Get(requirement.params, "slow", 26)
      signal_period == Get(requirement.params, "signal", 9) IN
  IF fast_period <= 0 \/ slow_period <= 0 \/ signal_period <= 0
  THEN ValueError(<<"MACD periods must be positive">>)
  ELSE IF fast_period >= slow_period
  THEN ValueError(<<"MACD fast period must be smaller than slow period">>)
  ELSE Built([class |-> "MACDIndicator", requirement |-> requirement,
              bar_count |-> 0, last_bar_ts |-> None,
              fast_period |-> fast_period, slow_period |-> slow_period,
              signal_period |-> signal_period,
              fast |-> EMAState(fast_period), slow |-> EMAState(slow_period),
              signal |-> EMAState(signal_period),
              diff |-> None, macd |-> None])

BollingerIndicator(requirement) ==
  LET period == Get(requirement.params, "period", 0) IN
  IF period <= 0 THEN ValueError(<<"Bollinger period must be positive">>)
  ELSE Built([class |-> "BollingerIndicator", requirement |-> requirement,
              bar_count |-> 0, last_bar_ts |-> None,
              period |-> period,
              std_dev |-> Q(Get(requirement.params, "std_dev", 2)),
              window |-> <<>>, sum |-> Q(0), sum_sq |-> Q(0)])

warmup_period(i) ==
  CASE i.class = "EMAIndicator" -> i.period
    [] i.class = "RSIIndicator" -> i.period + 1
    [] i.class = "MACDIndicator" -> i.slow_period + i.signal_period
    [] i.class = "BollingerIndicator" -> i.period

\* mutant: the base property holds on the bar that completes the warmup only
is_warmed_up_exact(i) ==
  CASE i.class = "RSIIndicator" -> i.avg_gain # None /\ i.avg_loss # None
    [] i.class = "MACDIndicator" -> EMAState_is_ready(i.signal)
    [] OTHER -> i.bar_count = warmup_period(i)

\* is_warmed_up: the base property, overridden by RSI and MACD
is_warmed_up(i) ==
  CASE i.class = "RSIIndicator" -> i.avg_gain # None /\ i.avg_loss # None
    [] i.class = "MACDIndicator" -> EMAState_is_ready(i.signal)
    [] OTHER -> i.bar_count >= warmup_period(i)

\* mutant: the EMA is seeded with the close of the bar that completes the
\* period
EMAIndicator_update_seeds_close(i, bar) ==
  LET close == Q(bar.close) IN
  IF bar.close = NullPrice THEN i
  ELSE IF i.ema = None
  THEN LET i1 == [i EXCEPT !.seed_sum = QAdd(@, close)] IN
       IF i1.bar_count = i1.period
       THEN [i1 EXCEPT !.ema = Some(close)]
       ELSE i1
  ELSE [i EXCEPT !.ema =
          Some(QAdd(QMul(QSub(close, i.ema[1]), i.alpha), i.ema[1]))]

\* _update of each class: the indicator when _update returns or raises.  On a
\* close of None the first arithmetic on it raises TypeError.
EMAIndicator_update(i, bar) ==
  LET close == Q(bar.close) IN
  IF bar.close = NullPrice THEN i
  ELSE IF i.ema = None
  THEN LET i1 == [i EXCEPT !.seed_sum = QAdd(@, close)] IN
       IF i1.bar_count = i1.period
       THEN [i1 EXCEPT !.ema = Some(QDiv(i1.seed_sum, Q(i1.period)))]
       ELSE i1
  ELSE [i EXCEPT !.ema =
          Some(QAdd(QMul(QSub(close, i.ema[1]), i.alpha), i.ema[1]))]

\* a close of None is stored as _prev_close (still None) on the first bar
\* and raises at `close - self._prev_close` on a later one
RSIIndicator_update(i, bar) ==
  LET close == Q(bar.close) IN
  IF bar.close = NullPrice THEN i
  ELSE IF i.prev_close = None THEN [i EXCEPT !.prev_close = Some(close)]
  ELSE
    LET change == QSub(close, i.prev_close[1])
        gain == QMax(change, Q(0))
        loss == QMax(QNeg(change), Q(0))
        i1 == [i EXCEPT !.prev_close = Some(close), !.change_count = @ + 1] IN
    IF i1.avg_gain = None \/ i1.avg_loss = None
    THEN LET i2 == [i1 EXCEPT !.gain_sum = QAdd(@, gain),
                              !.loss_sum = QAdd(@, loss)] IN
         IF i2.change_count >= i2.period
         THEN [i2 EXCEPT !.avg_gain = Some(QDiv(i2.gain_sum, Q(i2.period))),
                         !.avg_loss = Some(QDiv(i2.loss_sum, Q(i2.period)))]
         ELSE i2
    ELSE [i1 EXCEPT
            !.avg_gain = Some(QDiv(QAdd(QMul(i1.avg_gain[1], Q(i1.period - 1)),
                                        gain), Q(i1.period))),
            !.avg_loss = Some(QDiv(QAdd(QMul(i1.avg_loss[1], Q(i1.period - 1)),
                                        loss), Q(i1.period)))]

\* `x or 0.0` on an Optional[float]
OrZero(v) == IF v = None THEN Q(0) ELSE v[1]

\* mutant: the histogram is taken against the signal line of the bar before
MACDIndicator_update_stale(i, bar) ==
  LET close == Q(bar.close)
      i1 == [i EXCEPT !.fast = EMAState_update(@, close),
                      !.slow = EMAState_update(@, close)] IN
  IF bar.close = NullPrice THEN [i EXCEPT !.fast.count = @ + 1]
  ELSE IF ~(EMAState_is_ready(i1.fast) /\ EMAState_is_ready(i1.slow)) THEN i1
  ELSE
    LET diff == QSub(OrZero(i1.fast.value), OrZero(i1.slow.value))
        i2 == [i1 EXCEPT !.diff = Some(diff),
                         !.signal = EMAState_update(@, diff)] IN
    IF EMAState_is_ready(i2.signal)
    THEN [i2 EXCEPT !.macd = Some(QSub(diff, OrZero(i1.signal.value)))]
    ELSE i2

\* a close of None raises in _fast.update after its _count += 1
MACDIndicator_update(i, bar) ==
  LET close == Q(bar.close)
      i1 == [i EXCEPT !.fast = EMAState_update(@, close),
                      !.slow = EMAState_update(@, close)] IN
  IF bar.close = NullPrice THEN [i EXCEPT !.fast.count = @ + 1]
  ELSE IF ~(EMAState_is_ready(i1.fast) /\ EMAState_is_ready(i1.slow)) THEN i1
  ELSE
    LET diff == QSub(OrZero(i1.fast.value), OrZero(i1.slow.value))
        i2 == [i1 EXCEPT !.diff = Some(diff),
                         !.signal = EMAState_update(@, diff)] IN
    IF EMAState_is_ready(i2.signal)
    THEN [i2 EXCEPT !.macd = Some(QSub(diff, OrZero(i2.signal.value)))]
    ELSE i2

\* a close of None is appended to the window and raises at `self._sum += close`
BollingerIndicator_update(i, bar) ==
  LET close == Q(bar.close)
      full == Len(i.window) = i.period
      i1 == IF full
            THEN [i EXCEPT !.window = Tail(@),
                           !.sum = QSub(@, i.window[1]),
                           !.sum_sq = QSub(@, QMul(i.window[1], i.window[1]))]
            ELSE i IN
  IF bar.close = NullPrice THEN [i1 EXCEPT !.window = Append(@, close)]
  ELSE
  [i1 EXCEPT !.window = Append(@, close),
             !.sum = QAdd(@, close),
             !.sum_sq = QAdd(@, QMul(close, close))]

\* the TypeError of an arithmetic operation on None
TypeError == [ok |-> FALSE, type |-> "TypeError",
              message |-> <<"unsupported operand type(s)">>]

\* BaseIncrementalIndicator.update: the exception that leaves it, None when
\* it returns
indicator_update_exc(i, bar) ==
  IF bar.close # NullPrice THEN None
  ELSE IF i.class = "RSIIndicator" /\ i.prev_close = None THEN None
  ELSE Some(TypeError)

\* BaseIncrementalIndicator.update: the indicator when it returns or raises
indicator_update(i, bar) ==
  LET i1 == [i EXCEPT !.bar_count = @ + 1,
                      !.last_bar_ts = Some(bar.timestamp)] IN
  CASE i1.class = "EMAIndicator" -> EMAIndicator_update(i1, bar)
    [] i1.class = "RSIIndicator" -> RSIIndicator_update(i1, bar)
    [] i1.class = "MACDIndicator" -> MACDIndicator_update(i1, bar)
    [] i1.class = "BollingerIndicator" -> BollingerIndicator_update(i1, bar)

EMAIndicator_value(i) == IF is_warmed_up(i) THEN i.ema ELSE None

\* mutant: the relative strength is scaled instead of mapped into 0..100
RSIIndicator_value_unscaled(i) ==
  IF ~is_warmed_up(i) THEN None
  ELSE IF i.avg_loss[1] = Q(0) THEN Some(Q(100))
  ELSE LET rs_ == QDiv(i.avg_gain[1], i.avg_loss[1]) IN
       Some(QMul(Q(100), rs_))

RSIIndicator_value(i) ==
  IF ~is_warmed_up(i) THEN None
  ELSE IF i.avg_loss[1] = Q(0) THEN Some(Q(100))
  ELSE LET rs_ == QDiv(i.avg_gain[1], i.avg_loss[1]) IN
       Some(QSub(Q(100), QDiv(Q(100), QAdd(Q(1), rs_))))

MACDIndicator_value(i) ==
  LET both_ready == EMAState_is_ready(i.fast) /\ EMAState_is_ready(i.slow)
      signal_ready == EMAState_is_ready(i.signal) IN
  [ema_fast |-> IF EMAState_is_ready(i.fast) THEN i.fast.value ELSE None,
   ema_slow |-> IF EMAState_is_ready(i.slow) THEN i.slow.value ELSE None,
   diff |-> IF both_ready THEN i.diff ELSE None,
   dea |-> IF signal_ready THEN i.signal.value ELSE None,
   macd |-> IF signal_ready THEN i.macd ELSE None,
   fast_line |-> IF both_ready THEN i.diff ELSE None,
   signal_line |-> IF signal_ready THEN i.signal.value ELSE None,
   histogram |-> IF signal_ready THEN i.macd ELSE None]

\* A Bollinger band is mean + coef * sqrt(radicand), kept as the triple
\* [base, coef, radicand] because the square root is not rational.
Surd(base, coef, radicand) ==
  [base |-> base, coef |-> coef, radicand |-> radicand]

BollingerIndicator_value(i) ==
  IF Len(i.window) < i.period
  THEN [upper |-> None, middle |-> None, lower |-> None, bandwidth |-> None]
  ELSE
    LET mean == QDiv(i.sum, Q(i.period))
        variance == QMax(QSub(QDiv(i.sum_sq, Q(i.period)), QMul(mean, mean)),
                         Q(0)) IN
    [upper |-> Some(Surd(mean, i.std_dev, variance)),
     middle |-> Some(mean),
     lower |-> Some(Surd(mean, QNeg(i.std_dev), variance)),
     bandwidth |-> Some(Surd(Q(0), QMul(Q(2), i.std_dev), variance))]

\* value() of an indicator
value(i) ==
  CASE i.class = "EMAIndicator" -> EMAIndicator_value(i)
    [] i.class = "RSIIndicator" -> RSIIndicator_value(i)
    [] i.class = "MACDIndicator" -> MACDIndicator_value(i)
    [] i.class = "BollingerIndicator" -> BollingerIndicator_value(i)

\* ---------------------------------------------------------------- engine
\* IndicatorEngine(): the object after __init__.  order is the key order of
\* the _indicators dict (insertion order).
IndicatorEngine ==
  [requirements |-> EmptyDict, indicators |-> EmptyDict, order |-> <<>>,
   last_update_ts |-> None, last_bar_ts_by_timeframe |-> EmptyDict]

build_indicator(requirement) ==
  LET indicator_type == requirement.type IN
  CASE indicator_type = "ema" -> EMAIndicator(requirement)
    [] indicator_type = "rsi" -> RSIIndicator(requirement)
    [] indicator_type = "macd" -> MACDIndicator(requirement)
    [] indicator_type \in {"boll", "bollinger", "bb"} ->
         BollingerIndicator(requirement)
    [] OTHER -> ValueError(<<"unsupported indicator type: ", indicator_type>>)

\* register_requirements from entry k of the dict on: requirements is the
\* dict's items in order, << <<req_id, spec>>, ... >>.  The result is the
\* engine when the call returns or raises, whether it raised, the entry that
\* raised and the exception.
RECURSIVE register_from(_, _, _)
register_from(e, requirements, k) ==
  IF k > Len(requirements)
  THEN [self |-> e, raised |-> FALSE, at |-> k, exc |-> None]
  ELSE
    LET req_id == requirements[k][1]
        spec == requirements[k][2]
        indicator_type == lower_tag(Get(spec, "type", ""))
        timeframe == lower(Get(spec, "timeframe", <<>>)) IN
    IF indicator_type = "" \/ timeframe = <<>>
    THEN [self |-> e, raised |-> TRUE, at |-> k,
          exc |-> Some(ValueError(
                         <<"indicator type and timeframe are required">>))]
    ELSE
      LET params == [key \in (DOMAIN spec) \ {"type", "timeframe"} |->
                       spec[key]]
          requirement ==
            IndicatorRequirement(req_id, indicator_type, timeframe, params)
          e1 == [e EXCEPT !.requirements = Put(@, req_id, requirement)]
          built == build_indicator(requirement) IN
      IF ~built.ok
      THEN [self |-> e1, raised |-> TRUE, at |-> k, exc |-> Some(built)]
      ELSE register_from(
             [e1 EXCEPT !.indicators = Put(@, req_id, built.indicator),
                        !.order = IF req_id \in DOMAIN e1.indicators THEN @
                                  ELSE Append(@, req_id)],
             requirements, k + 1)

register_requirements(e, requirements) == register_from(e, requirements, 1)

\* mutant: reset() keeps the record of the last bar of each timeframe
engine_reset_keeps_bars(e) ==
  [e EXCEPT !.requirements = EmptyDict,
            !.indicators = EmptyDict,
            !.order = <<>>,
            !.last_update_ts = None]

\* IndicatorEngine.reset
engine_reset(e) ==
  [e EXCEPT !.requirements = EmptyDict,
            !.indicators = EmptyDict,
            !.order = <<>>,
            !.last_update_ts = None,
            !.last_bar_ts_by_timeframe = EmptyDict]

\* the loop of update() from position k of the indicators on: the engine when
\* the loop ends or an indicator's update raises, whether an indicator was
\* updated, and the exception.  after_update is the loop after the update of
\* the indicator at position k left the engine e1 and raised or returned.
RECURSIVE update_from(_, _, _, _)
RECURSIVE after_update(_, _, _, _, _)
update_from(e, b, k, updated) ==
  IF k > Len(e.order) THEN [self |-> e, updated |-> updated, exc |-> None]
  ELSE IF e.indicators[e.order[k]].requirement.timeframe # b.timeframe
  THEN update_from(e, b, k + 1, updated)
  ELSE after_update(
         [e EXCEPT !.indicators[e.order[k]] = indicator_update(@, b)],
         indicator_update_exc(e.indicators[e.order[k]], b), b, k, updated)

after_update(e1, raised, b, k, updated) ==
  IF raised # None THEN [self |-> e1, updated |-> updated, exc |-> raised]
  ELSE update_from(e1, b, k + 1, TRUE)

\* mutant: the clock reading is recorded as the timeframe's last bar
record_update_clock(loop, b, now) ==
  IF loop.exc = None /\ loop.updated
  THEN [loop.self EXCEPT !.last_update_ts = Some(now),
                         !.last_bar_ts_by_timeframe = Put(@, b.timeframe, now)]
  ELSE loop.self

\* the end of update(): the timestamps are recorded when the loop ended and
\* updated an indicator
record_update(loop, b, now) ==
  IF loop.exc = None /\ loop.updated
  THEN [loop.self EXCEPT !.last_update_ts = Some(now),
                         !.last_bar_ts_by_timeframe =
                            Put(@, b.timeframe, b.timestamp)]
  ELSE loop.self

\* IndicatorEngine.update: the engine when the call returns or raises; now is
\* int(time.time() * 1000)
engine_update(e, b, now) == record_update(update_from(e, b, 1, FALSE), b, now)

\* IndicatorEngine.update: the exception that leaves it, None when it returns
engine_update_exc(e, b) == update_from(e, b, 1, FALSE).exc

\* mutant: every bar of the warm-up is stamped 0
warmup_bar_unstamped(ohlcv, timeframe, idx) ==
  LET close == ohlcv["close"][idx]
      opens == Get(ohlcv, "open", <<>>)
      highs == Get(ohlcv, "high", <<>>)
      lows == Get(ohlcv, "low", <<>>)
      volumes == Get(ohlcv, "volume", <<>>) IN
  IndicatorBar(0,
               IF idx <= Len(opens) THEN opens[idx] ELSE close,
               IF idx <= Len(highs) THEN highs[idx] ELSE close,
               IF idx <= Len(lows) THEN lows[idx] ELSE close,
               close,
               IF idx <= Len(volumes) THEN volumes[idx] ELSE 0,
               timeframe)

\* the bar warmup_from_ohlcv builds at position idx of the close column
\* (positions count from 1): a column too short for idx gives the default
warmup_bar(ohlcv, timeframe, idx) ==
  LET close == ohlcv["close"][idx]
      opens == Get(ohlcv, "open", <<>>)
      highs == Get(ohlcv, "high", <<>>)
      lows == Get(ohlcv, "low", <<>>)
      volumes == Get(ohlcv, "volume", <<>>)
      timestamps == Get(ohlcv, "timestamps", <<>>) IN
  IndicatorBar(IF idx <= Len(timestamps) THEN timestamps[idx] ELSE 0,
               IF idx <= Len(opens) THEN opens[idx] ELSE close,
               IF idx <= Len(highs) THEN highs[idx] ELSE close,
               IF idx <= Len(lows) THEN lows[idx] ELSE close,
               close,
               IF idx <= Len(volumes) THEN volumes[idx] ELSE 0,
               timeframe)

\* the loop of warmup_from_ohlcv from position idx on: the engine when the
\* loop ends or update() raises, and the exception.  Only the clock reading
\* of the last update() that records one is kept by the engine: now is that
\* reading.
RECURSIVE warmup_from(_, _, _, _, _)
RECURSIVE warmup_feed(_, _, _, _, _, _)
RECURSIVE warmup_after(_, _, _, _, _, _)
warmup_from(e, ohlcv, timeframe, idx, now) ==
  IF idx > Len(ohlcv["close"]) THEN [self |-> e, exc |-> None]
  ELSE warmup_feed(e, warmup_bar(ohlcv, timeframe, idx), ohlcv, timeframe,
                   idx, now)

warmup_feed(e, bar, ohlcv, timeframe, idx, now) ==
  warmup_after(engine_update(e, bar, now), engine_update_exc(e, bar), ohlcv,
               timeframe, idx, now)

warmup_after(e1, raised, ohlcv, timeframe, idx, now) ==
  IF raised # None THEN [self |-> e1, exc |-> raised]
  ELSE warmup_from(e1, ohlcv, timeframe, idx + 1, now)

\* IndicatorEngine.warmup_from_ohlcv
warmup_from_ohlcv(e, ohlcv, timeframe, now) ==
  IF Get(ohlcv, "close", <<>>) = <<>> THEN [self |-> e, exc |-> None]
  ELSE warmup_from(e, ohlcv, timeframe, 1, now)

\* the keys of TALIPP_REGISTRY: the type tags of the indicator registry
TALIPP_REGISTRY ==
  { "sma", "ema", "dema", "tema", "wma", "smma", "hma", "kama", "zlema", "t3",
    "alma", "vwma", "rsi", "macd", "stoch", "stochrsi", "cci", "roc", "willr",
    "williams", "tsi", "ao", "boll", "bb", "bollinger", "atr", "natr", "kc",
    "dc", "stddev", "adx", "aroon", "psar", "supertrend", "obv", "vwap",
    "adl", "accudist", "chaikin", "ichimoku", "trix", "dpo", "kst", "uo",
    "bop", "chop", "emv", "force", "mass", "vtx" }

\* max() of a non-empty set of integers
MaxOf(S) == CHOOSE m \in S : \A x \in S : x <= m

\* mutant: the bucket of a timeframe reports the warmup of all indicators
bucket_warmup_all(e, timeframe) ==
  \A id \in DOMAIN e.indicators : is_warmed_up(e.indicators[id])

\* warmup_state of snapshot(): all indicators of the timeframe are warmed up
bucket_warmup(e, timeframe) ==
  \A id \in DOMAIN e.indicators :
    e.indicators[id].requirement.timeframe = timeframe
      => is_warmed_up(e.indicators[id])

\* mutant: the top-level bar_close_ts is the oldest of the recorded timestamps
top_bar_close_ts_oldest(e) ==
  LET recorded == e.last_bar_ts_by_timeframe IN
  IF DOMAIN recorded # {}
  THEN Some(CHOOSE m \in {recorded[tf] : tf \in DOMAIN recorded} :
              \A tf \in DOMAIN recorded : m <= recorded[tf])
  ELSE None

\* snapshot["bar_close_ts"]
top_bar_close_ts(e) ==
  LET recorded == e.last_bar_ts_by_timeframe IN
  IF DOMAIN recorded # {}
  THEN Some(MaxOf({recorded[tf] : tf \in DOMAIN recorded}))
  ELSE None

\* IndicatorEngine.snapshot: the dict returned, its keys the indicator types
\* and "is_warmed_up", "timestamp", "bar_close_ts", "by_timeframe"
snapshot(e) ==
  LET ids == DOMAIN e.indicators
      type_of(id) == e.indicators[id].requirement.type
      timeframe_of(id) == e.indicators[id].requirement.timeframe
      values(S) == [id \in S |-> value(e.indicators[id])]
      by_type ==
        [t \in {type_of(id) : id \in ids} |->
           values({id \in ids : type_of(id) = t})]
      bucket(timeframe) ==
        LET on == {id \in ids : timeframe_of(id) = timeframe} IN
        [k \in {type_of(id) : id \in on} \cup {"is_warmed_up", "bar_close_ts"}
           |-> CASE k = "is_warmed_up" -> bucket_warmup(e, timeframe)
                 [] k = "bar_close_ts" ->
                      IF timeframe \in DOMAIN e.last_bar_ts_by_timeframe
                      THEN Some(e.last_bar_ts_by_timeframe[timeframe])
                      ELSE None
                 [] OTHER -> values({id \in on : type_of(id) = k})]
      by_timeframe ==
        [timeframe \in {timeframe_of(id) : id \in ids} |-> bucket(timeframe)]
      overall_warmup == \A id \in ids : is_warmed_up(e.indicators[id]) IN
  [k \in (DOMAIN by_type)
           \cup {"is_warmed_up", "timestamp", "bar_close_ts", "by_timeframe"}
     |-> CASE k = "is_warmed_up" -> overall_warmup
           [] k = "timestamp" -> e.last_update_ts
           [] k = "bar_close_ts" -> top_bar_close_ts(e)
           [] k = "by_timeframe" -> by_timeframe
           [] OTHER -> by_type[k]]

\* -------------------------------------------------------- circuit breaker
\* CircuitBreaker(failure_threshold, success_threshold, timeout) constructed
\* when time.time() is now; CircuitState is the string of its value
CircuitBreaker(failure_threshold, success_threshold, timeout, now) ==
  [failure_threshold |-> failure_threshold,
   success_threshold |-> success_threshold,
   timeout |-> timeout,
   state |-> "closed",
   failure_count |-> 0,
   success_count |-> 0,
   last_failure_time |-> None,
   last_state_change |-> now]

\* mutant: the trial starts only after more than timeout seconds
should_try_reset_strict(b, now) ==
  IF b.last_failure_time = None THEN TRUE
  ELSE now - b.last_failure_time[1] > b.timeout

should_try_reset(b, now) ==
  IF b.last_failure_time = None THEN TRUE
  ELSE now - b.last_failure_time[1] >= b.timeout

set_state(b, state, now) ==
  IF b.state # state
  THEN [b EXCEPT !.state = state,
                 !.last_state_change = now,
                 !.success_count = IF state = "half_open" THEN 0 ELSE @]
  ELSE b

\* the property state: the breaker after it was read, and the value read
CircuitBreaker_state(b, now) ==
  LET b1 == IF b.state = "open" /\ should_try_reset(b, now)
            THEN set_state(b, "half_open", now)
            ELSE b IN
  [self |-> b1, result |-> b1.state]

allow_request(b, now) ==
  LET read == CircuitBreaker_state(b, now) IN
  [self |-> read.self, result |-> read.result \in {"closed", "half_open"}]

record_success(b, now) ==
  IF b.state = "half_open"
  THEN LET b1 == [b EXCEPT !.success_count = @ + 1] IN
       IF b1.success_count >= b1.success_threshold
       THEN [set_state(b1, "closed", now) EXCEPT !.failure_count = 0]
       ELSE b1
  ELSE IF b.state = "closed" THEN [b EXCEPT !.failure_count = 0]
  ELSE b

\* mutant: a failure of the trial leaves the breaker HALF_OPEN
record_failure_keeps_trial(b, now) ==
  LET b1 == [b EXCEPT !.failure_count = @ + 1,
                      !.last_failure_time = Some(now)] IN
  IF b1.state = "closed" /\ b1.failure_count >= b1.failure_threshold
  THEN set_state(b1, "open", now)
  ELSE b1

\* mutant: a closed breaker opens one failure after the threshold
record_failure_late(b, now) ==
  LET b1 == [b EXCEPT !.failure_count = @ + 1,
                      !.last_failure_time = Some(now)] IN
  IF b1.state = "half_open" THEN set_state(b1, "open", now)
  ELSE IF b1.state = "closed" /\ b1.failure_count > b1.failure_threshold
  THEN set_state(b1, "open", now)
  ELSE b1

record_failure(b, now) ==
  LET b1 == [b EXCEPT !.failure_count = @ + 1,
                      !.last_failure_time = Some(now)] IN
  IF b1.state = "half_open" THEN set_state(b1, "open", now)
  ELSE IF b1.state = "closed" /\ b1.failure_count >= b1.failure_threshold
  THEN set_state(b1, "open", now)
  ELSE b1

\* CircuitBreaker.reset
CircuitBreaker_reset(b, now) ==
  [b EXCEPT !.state = "closed",
            !.failure_count = 0,
            !.success_count = 0,
            !.last_failure_time = None,
            !.last_state_change = now]

\* --------------------------------------------------------- bar producer
\* timeframes of the bars the producer sends
BarTimeframes == { <<1, "m">>, <<3, "m">>, <<1, "M">> }

\* minutes of a canonical timeframe (1M is the nominal 30-day month)
GridMinutes(tf) ==
  CASE tf[2] = "m" -> tf[1]
    [] tf[2] = "h" -> tf[1] * 60
    [] tf[2] = "d" -> tf[1] * 1440
    [] tf[2] = "w" -> tf[1] * 10080
    [] tf[2] = "M" -> tf[1] * 43200

\* ------------------------------------------------------------------ cache
\* CacheEntry, with the key the OrderedDict files it under
CacheEntry(key, data, timestamp, ttl) ==
  [key |-> key, data |-> data, timestamp |-> timestamp, ttl |-> ttl]

is_expired(entry, now) == now - entry.timestamp > entry.ttl

\* LRUCache: _cache is the OrderedDict as the sequence of its entries,
\* oldest first
LRUCache(max_size, default_ttl) ==
  [max_size |-> max_size, default_ttl |-> default_ttl, cache |-> <<>>,
   hits |-> 0, misses |-> 0]

CacheKeys(c) == { c.cache[i].key : i \in 1..Len(c.cache) }
EntryOf(c, key) ==
  c.cache[CHOOSE i \in 1..Len(c.cache) : c.cache[i].key = key]
Dropped(cache, key) == SelectSeq(cache, LAMBDA e : e.key # key)

\* LRUCache.get without move_to_end
LRUCache_get_unmoved(c, key, now) ==
  IF key \notin CacheKeys(c)
  THEN [self |-> [c EXCEPT !.misses = @ + 1], result |-> None]
  ELSE LET entry == EntryOf(c, key) IN
       IF is_expired(entry, now)
       THEN [self |-> [c EXCEPT !.cache = Dropped(@, key),
                                !.misses = @ + 1],
             result |-> None]
       ELSE [self |-> [c EXCEPT !.hits = @ + 1],
             result |-> Some(entry.data)]

\* LRUCache.get: the cache after the call and the value returned, None or
\* Some(data)
LRUCache_get(c, key, now) ==
  IF key \notin CacheKeys(c)
  THEN [self |-> [c EXCEPT !.misses = @ + 1], result |-> None]
  ELSE LET entry == EntryOf(c, key) IN
       IF is_expired(entry, now)
       THEN [self |-> [c EXCEPT !.cache = Dropped(@, key),
                                !.misses = @ + 1],
             result |-> None]
       ELSE [self |-> [c EXCEPT !.cache = Append(Dropped(@, key), entry),
                                !.hits = @ + 1],
             result |-> Some(entry.data)]

\* the KeyError of popitem() on an empty OrderedDict
KeyError == [ok |-> FALSE, type |-> "KeyError",
             message |-> <<"dictionary is empty">>]

\* the loop of LRUCache.set: popitem(last=False) while the cache is full
RECURSIVE popitems(_, _)
popitems(cache, max_size) ==
  IF Len(cache) >= max_size
  THEN IF cache = <<>> THEN [cache |-> cache, exc |-> Some(KeyError)]
       ELSE popitems(Tail(cache), max_size)
  ELSE [cache |-> cache, exc |-> None]

\* ttl or self.default_ttl: None and 0 are both falsy
ttl_or(ttl, default_ttl) ==
  IF ttl = None \/ ttl = Some(0) THEN default_ttl ELSE ttl[1]

\* LRUCache.set that takes a ttl of 0 as given
LRUCache_set_zero_ttl(c, key, data, ttl, now) ==
  LET popped == popitems(Dropped(c.cache, key), c.max_size) IN
  IF popped.exc # None
  THEN [self |-> [c EXCEPT !.cache = popped.cache], exc |-> popped.exc]
  ELSE [self |-> [c EXCEPT !.cache =
                     Append(popped.cache,
                            CacheEntry(key, data, now,
                                       IF ttl = None THEN c.default_ttl
                                       ELSE ttl[1]))],
        exc |-> None]

\* LRUCache.set: the cache after the call and the exception that leaves it
LRUCache_set(c, key, data, ttl, now) ==
  LET popped == popitems(Dropped(c.cache, key), c.max_size) IN
  IF popped.exc # None
  THEN [self |-> [c EXCEPT !.cache = popped.cache], exc |-> popped.exc]
  ELSE [self |-> [c EXCEPT !.cache =
                     Append(popped.cache,
                            CacheEntry(key, data, now,
                                       ttl_or(ttl, c.default_ttl)))],
        exc |-> None]

LRUCache_delete(c, key) ==
  IF key \in CacheKeys(c)
  THEN [self |-> [c EXCEPT !.cache = Dropped(@, key)], result |-> TRUE]
  ELSE [self |-> c, result |-> FALSE]

\* DataCenterCache.__init__
DataCenterCache(kline_ttl, ticker_ttl, orderbook_ttl, max_size) ==
  [kline_cache |-> LRUCache(max_size, kline_ttl),
   ticker_cache |-> LRUCache(max_size \div 2, ticker_ttl),
   orderbook_cache |-> LRUCache(max_size \div 4, orderbook_ttl)]

\* str() of an Optional[int]
StrOpt(x) == IF x = None THEN "None" ELSE ToString(x[1])

kline_key(symbol, interval, start_time, end_time, limit) ==
  "kline:" \o symbol \o ":" \o interval \o ":" \o StrOpt(start_time)
    \o ":" \o StrOpt(end_time) \o ":" \o ToString(limit)

get_kline(d, symbol, interval, start_time, end_time, limit, now) ==
  LET call == LRUCache_get(d.kline_cache,
                           kline_key(symbol, interval, start_time, end_time,
                                     limit), now)
  IN [self |-> [d EXCEPT !.kline_cache = call.self], result |-> call.result]

set_kline(d, symbol, interval, data, start_time, end_time, limit, ttl, now) ==
  LET call == LRUCache_set(d.kline_cache,
                           kline_key(symbol, interval, start_time, end_time,
                                     limit), data, ttl, now)
  IN [self |-> [d EXCEPT !.kline_cache = call.self], exc |-> call.exc]

get_ticker(d, symbol, now) ==
  LET call == LRUCache_get(d.ticker_cache, "ticker:" \o symbol, now) IN
  [self |-> [d EXCEPT !.ticker_cache = call.self], result |-> call.result]

set_ticker(d, symbol, data, ttl, now) ==
  LET call == LRUCache_set(d.ticker_cache, "ticker:" \o symbol, data, ttl,
                           now)
  IN [self |-> [d EXCEPT !.ticker_cache = call.self], exc |-> call.exc]

get_orderbook(d, symbol, now) ==
  LET call == LRUCache_get(d.orderbook_cache, "orderbook:" \o symbol, now)
  IN [self |-> [d EXCEPT !.orderbook_cache = call.self],
      result |-> call.result]

set_orderbook(d, symbol, data, ttl, now) ==
  LET call == LRUCache_set(d.orderbook_cache, "orderbook:" \o symbol, data,
                           ttl, now)
  IN [self |-> [d EXCEPT !.orderbook_cache = call.self], exc |-> call.exc]

\* the history of a cache nothing was called on
NewCacheHistory ==
  /\ used = <<>>
  /\ stored = EmptyDict
  /\ gone = {}
  /\ sets = 0

\* caches nothing was called on
NewCache ==
  /\ lru = LRUCache(1000, 300)
  /\ dc = DataCenterCache(60, 5, 1, 1000)
  /\ NewCacheHistory

\* ---------------------------------------------- resampler state machine
TfPairs == { << <<1, "m">>, <<3, "m">> >>,
             << <<1, "m">>, <<5, "m">> >>,
             << <<30, "m">>, <<1, "h">> >> }

SourceBars(r, maxSlot) ==
  { IndicatorBar(k * r.source_seconds_ms, s.open, s.high, s.low, s.close,
                 s.volume, r.source_tf) : k \in 0..maxSlot, s \in BarShapes }

StrictlyIncreasing(bars) ==
  \A i \in 1..(Len(bars) - 1) : bars[i].timestamp < bars[i + 1].timestamp

\* the history of a resampler nothing was fed to
NewResamplerHistory ==
  /\ fed = <<>>
  /\ emitted = <<>>
  /\ ret = None
  /\ superseded = {}
  /\ flushes = 0
  /\ flushedAt = 0
  /\ both = FALSE

\* the history of a breaker nothing was called on
NewBreakerHistory ==
  /\ streak = 0
  /\ openedAt = None
  /\ failedAt = None
  /\ reopenedAt = None
  /\ okSince = 0

\* a breaker nothing was called on
NewBreaker ==
  /\ cb = CircuitBreaker(5, 2, 30, 0)
  /\ clock = 0
  /\ NewBreakerHistory

\* the history of an engine nothing was called on
NewEngineHistory ==
  /\ lastBar = None
  /\ err = FALSE
  /\ sent = [tf \in BarTimeframes |-> 0]
  /\ regs = 0
  /\ declared = EmptyDict
  /\ twin = IndicatorEngine
  /\ resetUsed = FALSE

\* no call was made yet
NewCallHistory ==
  /\ exc = None
  /\ arg = None
  /\ out = None

InitR ==
  /\ \E p \in TfPairs :
       rs = OhlcvResampler(p[1], p[2], calculate_resample_ratio(p[1], p[2]))
  /\ NewResamplerHistory
  /\ NewCache
  /\ NewBreaker
  /\ eng = IndicatorEngine
  /\ NewEngineHistory
  /\ NewCallHistory
  /\ ind = None
  /\ op = "new"

\* period arithmetic of the history variables, from the two durations alone
PeriodOf(t) == (t \div rs.target_seconds_ms) * rs.target_seconds_ms
ClosesPeriod(t) == t + rs.source_seconds_ms >= PeriodOf(t) + rs.target_seconds_ms

\* a partial aggregate is pending: bars were fed since the last flush() and
\* the last of them did not close its period
HasPending ==
  /\ Len(fed) > flushedAt
  /\ ~ClosesPeriod(fed[Len(fed)].timestamp)

DoAdd(bar) ==
  LET call == add(rs, bar)
      meets == /\ HasPending
               /\ PeriodOf(fed[Len(fed)].timestamp) # PeriodOf(bar.timestamp)
               /\ ClosesPeriod(bar.timestamp) IN
  /\ rs' = call.self
  /\ ret' = call.result
  /\ fed' = Append(fed, bar)
  /\ emitted' = IF call.result = None THEN emitted
                ELSE Append(emitted, call.result[1])
  /\ op' = "add"
  /\ superseded' = IF meets
                   THEN superseded \cup {PeriodOf(fed[Len(fed)].timestamp)}
                   ELSE superseded
  /\ both' = meets
  /\ UNCHANGED <<kvars, bvars, flushes, flushedAt, evars, cvars, ind>>

\* add() on a stream with strictly increasing timestamps
AddOrdered ==
  /\ Len(fed) < MaxBars
  /\ \E bar \in SourceBars(rs, MaxSlot) :
       /\ Len(fed) > 0 => bar.timestamp > fed[Len(fed)].timestamp
       /\ DoAdd(bar)

\* add() on any stream on the source grid
AddAny ==
  /\ Len(fed) < MaxBarsAny
  /\ \E bar \in SourceBars(rs, MaxSlotAny) : DoAdd(bar)

DoFlush ==
  /\ LET call == flush(rs) IN
       /\ rs' = call.self
       /\ ret' = call.result
       /\ emitted' = IF call.result = None THEN emitted
                     ELSE Append(emitted, call.result[1])
  /\ op' = "flush"
  /\ flushes' = flushes + 1
  /\ flushedAt' = Len(fed)
  /\ both' = FALSE
  /\ UNCHANGED <<kvars, bvars, fed, superseded, evars, cvars, ind>>

\* flush() at the end of the stream
Flush ==
  /\ flushes < MaxFlushes
  /\ DoFlush

NextR == AddOrdered \/ Flush
NextRAny == AddAny \/ Flush

SpecResampler == InitR /\ [][NextR]_vars
SpecResamplerAny == InitR /\ [][NextRAny]_vars

\* a short stream with strictly increasing timestamps on which flush() is
\* called at any moment, also twice in a row
AddShort ==
  /\ Len(fed) < MaxBarsFlushed
  /\ \E bar \in SourceBars(rs, MaxSlotAny) :
       /\ Len(fed) > 0 => bar.timestamp > fed[Len(fed)].timestamp
       /\ DoAdd(bar)

FlushAgain ==
  /\ flushes < MaxFlushCalls
  /\ DoFlush

NextF == AddShort \/ FlushAgain

SpecFlush == InitR /\ [][NextF]_vars

\* ------------------------------------------------- engine state machine
\* values int(time.time() * 1000) returns to the engine, and to its twin,
\* which may read the clock a millisecond later
ClockReadings == {1700000000}
TwinClockReadings == {1700000000, 1700000001}

Ids == {"a", "b"}

\* the requirement specs callers register
ReqSpecs ==
  { [type |-> "ema", timeframe |-> <<1, "m">>, period |-> 2],
    [type |-> "RSI", timeframe |-> <<3, "m">>, period |-> 1],
    [type |-> "boll", timeframe |-> <<1, "M">>, period |-> 2],
    [type |-> "foo", timeframe |-> <<1, "m">>, period |-> 2],
    [type |-> "sma", timeframe |-> <<1, "m">>, period |-> 2],
    [type |-> "ema", timeframe |-> <<3, "m">>, period |-> 0],
    [type |-> "rsi", period |-> 2] }

\* dicts of one entry, and of the two entries "a", "b" in that order with an
\* entry "a" that registers
RegInputs ==
  { << <<id, spec>> >> : id \in Ids, spec \in ReqSpecs }
    \cup { << <<"a", x[1]>>, <<"b", x[2]>> >> :
             x \in { y \in ReqSpecs \X ReqSpecs :
                       register_requirements(IndicatorEngine,
                                             << <<"a", y[1]>> >>).raised
                         = FALSE } }

InitE ==
  /\ rs = OhlcvResampler(<<1, "m">>, <<5, "m">>, 5)
  /\ NewResamplerHistory
  /\ NewCache
  /\ NewBreaker
  /\ eng = IndicatorEngine
  /\ NewEngineHistory
  /\ NewCallHistory
  /\ ind = None
  /\ op = "new"

\* update() raised on the engine and it was not reset since: the failure is
\* fatal for the engine instance, which is not used again before a reset()
Broken == op = "update" /\ exc # None

\* requirements are registered before the stream starts: on a new engine or
\* after reset(), before the first update()
Setup == op \in {"new", "register", "reset"}

Register ==
  /\ regs < MaxRegs
  /\ Setup
  /\ \E requirements \in RegInputs :
       \E call \in {register_requirements(eng, requirements)} :
         /\ eng' = call.self
         /\ twin' = register_requirements(twin, requirements).self
         /\ err' = call.raised
         /\ exc' = call.exc
         /\ declared' =
              [id \in (DOMAIN declared)
                        \cup {requirements[k][1] : k \in 1..(call.at - 1)} |->
                 IF \E k \in 1..(call.at - 1) : requirements[k][1] = id
                 THEN LET k == CHOOSE j \in 1..(call.at - 1) :
                                 requirements[j][1] = id IN
                      requirements[k][2].timeframe
                 ELSE declared[id]]
  /\ regs' = regs + 1
  /\ resetUsed' = FALSE
  /\ op' = "register"
  /\ UNCHANGED <<kvars, bvars, rvars, lastBar, sent, ind, arg, out>>

\* a bar whose close is None
NullCloseShape ==
  [open |-> 10, high |-> 12, low |-> 9, close |-> NullPrice, volume |-> 1]

\* price/volume shapes of the bars the engine is sent: a well-formed bar and
\* the bar whose close is None
EngineBarShapes ==
  { [open |-> 10, high |-> 12, low |-> 9, close |-> 11, volume |-> 1],
    NullCloseShape }

Update ==
  /\ ~Broken
  /\ \E tf \in BarTimeframes, s \in EngineBarShapes,
        now \in ClockReadings, twin_now \in TwinClockReadings :
       /\ sent[tf] * GridMinutes(tf) <= MaxMinute
       /\ LET b == IndicatorBar(sent[tf] * GridMinutes(tf) * 60000, s.open,
                                s.high, s.low, s.close, s.volume, tf) IN
            /\ eng' = engine_update(eng, b, now)
            /\ twin' = engine_update(twin, b, twin_now)
            /\ \E raised \in {engine_update_exc(eng, b)} :
                 /\ exc' = raised
                 /\ err' = (raised # None)
            /\ lastBar' = Some(b)
       /\ sent' = [sent EXCEPT ![tf] = @ + 1]
  /\ resetUsed' = FALSE
  /\ op' = "update"
  /\ UNCHANGED <<kvars, bvars, rvars, regs, declared, ind, arg, out>>

Reset ==
  /\ eng' = engine_reset(eng)
  /\ twin' = engine_reset(twin)
  /\ err' = FALSE
  /\ exc' = None
  /\ declared' = EmptyDict
  /\ resetUsed' = (DOMAIN eng.indicators # {} /\ eng.last_update_ts # None)
  /\ op' = "reset"
  /\ UNCHANGED <<kvars, bvars, rvars, lastBar, sent, regs, ind, arg, out>>

NextE == Register \/ Update \/ Reset

SpecEngine == InitE /\ [][NextE]_vars

\* ---------------------------------------- engine lifecycle state machine
\* An engine whose requirements are registered at any moment of its life and
\* that is primed from columns of historical bars.
LifeTimeframes == { <<1, "m">>, <<3, "m">> }

LifeReqSpecs ==
  { [type |-> "ema", timeframe |-> <<1, "m">>, period |-> 2],
    [type |-> "rsi", timeframe |-> <<1, "m">>, period |-> 1],
    [type |-> "ema", timeframe |-> <<3, "m">>, period |-> 1] }

\* dicts of one entry: "a" with a requirement of the 1m timeframe, "b" with
\* the requirement of the 3m timeframe
LifeRegInputs ==
  { << <<IF spec.timeframe = <<1, "m">> THEN "a" ELSE "b", spec>> >> :
      spec \in LifeReqSpecs }

\* the number of bars the engine was sent
SentInLife == sent[<<1, "m">>] + sent[<<3, "m">>]

\* the columns of the n bars of the shapes s that follow the bars sent on
\* the timeframe tf
Columns(tf, n, s) ==
  [key \in {"timestamps", "open", "high", "low", "close", "volume"} |->
     [i \in 1..n |->
        CASE key = "timestamps" ->
               (sent[tf] + i - 1) * GridMinutes(tf) * 60000
          [] key = "open" -> s[i].open
          [] key = "high" -> s[i].high
          [] key = "low" -> s[i].low
          [] key = "close" -> s[i].close
          [] key = "volume" -> s[i].volume]]

\* the dict d without the keys of S
Without(d, S) == [key \in (DOMAIN d) \ S |-> d[key]]

\* the columns callers prime the engine with: parallel columns, columns
\* without timestamps, the close column alone, and a timestamps column
\* shorter than the close column
WarmupInputs(tf) ==
  UNION { { c, Without(c, {"timestamps"}),
            Without(c, {"timestamps", "open", "high", "low", "volume"}),
            [c EXCEPT !["timestamps"] = SubSeq(@, 1, Len(@) - 1)] } :
          c \in UNION { { Columns(tf, n, s) : s \in [1..n -> BarShapes] } :
                        n \in 0..(MaxLifeBars - SentInLife) } }

\* price/volume shape of the bars sent one at a time
LifeBarShapes ==
  { [open |-> 10, high |-> 12, low |-> 9, close |-> 11, volume |-> 1] }

InitL ==
  /\ rs = OhlcvResampler(<<1, "m">>, <<5, "m">>, 5)
  /\ NewResamplerHistory
  /\ NewCache
  /\ NewBreaker
  /\ eng = IndicatorEngine
  /\ NewEngineHistory
  /\ NewCallHistory
  /\ ind = None
  /\ op = "new"

LifeRegister ==
  /\ regs < MaxLifeRegs
  /\ \E requirements \in LifeRegInputs :
       \E call \in {register_requirements(eng, requirements)} :
         /\ eng' = call.self
         /\ err' = call.raised
         /\ exc' = call.exc
  /\ arg' = None
  /\ regs' = regs + 1
  /\ op' = "register"
  /\ UNCHANGED <<kvars, bvars, rvars, twin, lastBar, sent, declared, resetUsed, ind,
                 out>>

LifeUpdate ==
  /\ \E tf \in LifeTimeframes, s \in LifeBarShapes, now \in ClockReadings :
       /\ SentInLife < MaxLifeBars
       /\ \E b \in {IndicatorBar(sent[tf] * GridMinutes(tf) * 60000, s.open,
                                  s.high, s.low, s.close, s.volume, tf)} :
            /\ eng' = engine_update(eng, b, now)
            /\ \E raised \in {engine_update_exc(eng, b)} :
                 /\ exc' = raised
                 /\ err' = (raised # None)
       /\ sent' = [sent EXCEPT ![tf] = @ + 1]
  /\ arg' = None
  /\ op' = "update"
  /\ UNCHANGED <<kvars, bvars, rvars, twin, lastBar, regs, declared, resetUsed, ind,
                 out>>

LifeWarmup ==
  /\ \E timeframe \in LifeTimeframes, now \in ClockReadings :
       \E ohlcv \in WarmupInputs(timeframe) :
         \E call \in {warmup_from_ohlcv(eng, ohlcv, timeframe, now)} :
           /\ eng' = call.self
           /\ exc' = call.exc
           /\ err' = (call.exc # None)
           /\ arg' = Some(<<ohlcv, timeframe>>)
           /\ sent' = [sent EXCEPT ![timeframe] =
                                     @ + Len(Get(ohlcv, "close", <<>>))]
  /\ op' = "warmup_from_ohlcv"
  /\ UNCHANGED <<kvars, bvars, rvars, twin, lastBar, regs, declared, resetUsed, ind,
                 out>>

LifeReset ==
  /\ eng' = engine_reset(eng)
  /\ err' = FALSE
  /\ exc' = None
  /\ arg' = None
  /\ op' = "reset"
  /\ UNCHANGED <<kvars, bvars, rvars, twin, lastBar, sent, regs, declared, resetUsed,
                 ind, out>>

NextL == LifeRegister \/ LifeUpdate \/ LifeWarmup \/ LifeReset

SpecLifecycle == InitL /\ [][NextL]_vars

\* --------------------------------------------- indicator state machine
\* requirements of the indicators that are constructed and then updated;
\* parameters are integers, which int() and float() leave as they are
IndRequirements ==
  { IndicatorRequirement("x", "ema", <<1, "m">>, [period |-> p]) :
      p \in 0..3 }
    \cup { IndicatorRequirement("x", "rsi", <<1, "m">>, [period |-> p]) :
             p \in 0..3 }
    \cup { IndicatorRequirement("x", "macd", <<1, "m">>,
                                [fast |-> x[1], slow |-> x[2],
                                 signal |-> x[3]]) :
             x \in (0..2) \X (1..3) \X (0..3) }
    \cup { IndicatorRequirement("x", "boll", <<1, "m">>,
                                [period |-> x[1], std_dev |-> x[2]]) :
             x \in (0..3) \X {2, 0, -1} }

InitI ==
  /\ rs = OhlcvResampler(<<1, "m">>, <<5, "m">>, 5)
  /\ NewResamplerHistory
  /\ NewCache
  /\ NewBreaker
  /\ eng = IndicatorEngine
  /\ NewEngineHistory
  /\ exc = None
  /\ out = None
  /\ \E requirement \in IndRequirements : arg = Some(requirement)
  /\ ind = None
  /\ op = "new"

\* the constructor call EMAIndicator(requirement), RSIIndicator(requirement),
\* MACDIndicator(requirement) or BollingerIndicator(requirement)
Construct ==
  /\ op = "new"
  /\ LET built == build_indicator(arg[1]) IN
       /\ ind' = IF built.ok THEN Some(built.indicator) ELSE None
       /\ exc' = IF built.ok THEN None ELSE Some(built)
  /\ op' = "construct"
  /\ UNCHANGED <<kvars, bvars, rvars, evars, arg, out>>

\* closes of a rising stream
RisingCloses == <<10, 20, 30, 40>>

\* the next bar of the rising stream, while the indicator was fed nothing
\* but that stream
RisingShapes ==
  IF /\ Len(fed) < Len(RisingCloses)
     /\ \A k \in 1..Len(fed) : fed[k].close = RisingCloses[k]
  THEN { [open |-> c, high |-> c, low |-> c, close |-> c, volume |-> 1] :
           c \in {RisingCloses[Len(fed) + 1]} }
  ELSE {}

IndicatorUpdate ==
  /\ ind # None
  /\ ind[1].bar_count < MaxIndBars
  /\ \E s \in BarShapes \cup RisingShapes :
       \E bar \in {IndicatorBar(ind[1].bar_count * 60000, s.open, s.high,
                                s.low, s.close, s.volume, <<1, "m">>)} :
         /\ ind' = Some(indicator_update(ind[1], bar))
         /\ fed' = Append(fed, bar)
  /\ op' = "update"
  /\ UNCHANGED <<kvars, bvars, rs, emitted, ret, superseded, flushes, flushedAt,
                 both, evars, cvars>>

NextI == Construct \/ IndicatorUpdate

SpecIndicator == InitI /\ [][NextI]_vars

\* ------------------------------------------------ timeframe state machine
\* timeframe strings callers pass
TimeframeInputs ==
  { <<1, "m">>, <<2, "m">>, <<3, "m">>, <<5, "m">>, <<15, "m">>, <<30, "m">>,
    <<45, "m">>, <<1, "h">>, <<2, "h">>, <<4, "h">>, <<6, "h">>, <<7, "h">>,
    <<8, "h">>, <<12, "h">>, <<1, "d">>, <<3, "d">>, <<7, "d">>, <<1, "w">>,
    <<1, "M">> }

\* ratios callers construct a resampler with
RatioInputs == {1, 2}

InitT ==
  /\ rs = OhlcvResampler(<<1, "m">>, <<5, "m">>, 5)
  /\ NewResamplerHistory
  /\ NewCache
  /\ NewBreaker
  /\ eng = IndicatorEngine
  /\ NewEngineHistory
  /\ exc = None
  /\ out = None
  /\ \E source_tf \in TimeframeInputs, target_tf \in TimeframeInputs :
       arg = Some(<<source_tf, target_tf>>)
  /\ ind = None
  /\ op = "new"

\* the call calculate_resample_ratio(source_tf, target_tf)
Ratio ==
  /\ op = "new"
  /\ out' = Some(calculate_resample_ratio(arg[1][1], arg[1][2]))
  /\ op' = "calculate_resample_ratio"
  /\ UNCHANGED <<kvars, bvars, rvars, evars, exc, arg, ind>>

\* the call _tf_to_seconds(source_tf)
Seconds ==
  /\ op = "new"
  /\ out' = Some(tf_to_seconds(arg[1][1]))
  /\ op' = "_tf_to_seconds"
  /\ UNCHANGED <<kvars, bvars, rvars, evars, exc, arg, ind>>

\* the construction OhlcvResampler(source_tf, target_tf, ratio):
\* __post_init__ raises what _tf_to_seconds raises
NewResampler ==
  /\ op = "new"
  /\ \E ratio \in RatioInputs :
       IF tf_to_seconds(arg[1][1]) = TfError
       THEN /\ exc' = Some(ValueError(<<"Unknown timeframe: ",
                                        lower(arg[1][1])>>))
            /\ rs' = rs
       ELSE IF tf_to_seconds(arg[1][2]) = TfError
       THEN /\ exc' = Some(ValueError(<<"Unknown timeframe: ",
                                        lower(arg[1][2])>>))
            /\ rs' = rs
       ELSE /\ exc' = None
            /\ rs' = OhlcvResampler(arg[1][1], arg[1][2], ratio)
  /\ op' = "OhlcvResampler"
  /\ UNCHANGED <<kvars, bvars, fed, emitted, ret, superseded, flushes, flushedAt,
                 both, evars, arg, out, ind>>

\* the call register_requirements({"a": {"type": "ema", "timeframe":
\* source_tf, "period": 2}}) on a new engine
RegisterTimeframe ==
  /\ op = "new"
  /\ \E call \in {register_requirements(
                     eng, << <<"a", [type |-> "ema", timeframe |-> arg[1][1],
                                     period |-> 2]>> >>)} :
       /\ eng' = call.self
       /\ err' = call.raised
       /\ exc' = call.exc
  /\ op' = "register_requirements"
  /\ UNCHANGED <<kvars, bvars, rvars, twin, lastBar, sent, regs, declared, resetUsed,
                 arg, out, ind>>

NextT == Ratio \/ Seconds \/ NewResampler \/ RegisterTimeframe

SpecTimeframe == InitT /\ [][NextT]_vars

\* ------------------------------------------ circuit breaker state machine
FailureThresholds == {1, 2, 3}
SuccessThresholds == {1, 2}
Timeouts == {1, 2}

InitB ==
  /\ rs = OhlcvResampler(<<1, "m">>, <<5, "m">>, 5)
  /\ NewResamplerHistory
  /\ NewCache
  /\ eng = IndicatorEngine
  /\ NewEngineHistory
  /\ NewCallHistory
  /\ ind = None
  /\ op = "new"
  /\ clock = 0
  /\ \E failure_threshold \in FailureThresholds,
        success_threshold \in SuccessThresholds, timeout \in Timeouts :
       cb = CircuitBreaker(failure_threshold, success_threshold, timeout, 0)
  /\ NewBreakerHistory

\* a second passes
Tick ==
  /\ clock < MaxClock
  /\ clock' = clock + 1
  /\ UNCHANGED <<kvars, rvars, evars, cvars, ind, op, cb, hvars>>

\* a read of the property state
ReadState ==
  /\ \E read \in {CircuitBreaker_state(cb, clock)} :
       /\ cb' = read.self
       /\ out' = Some(read.result)
  /\ op' = "state"
  /\ UNCHANGED <<kvars, rvars, evars, exc, arg, ind, clock, hvars>>

AllowRequest ==
  /\ \E call \in {allow_request(cb, clock)} :
       /\ cb' = call.self
       /\ out' = Some(call.result)
  /\ op' = "allow_request"
  /\ UNCHANGED <<kvars, rvars, evars, exc, arg, ind, clock, hvars>>

RecordSuccess ==
  /\ okSince < MaxSuccesses
  /\ cb' = record_success(cb, clock)
  /\ streak' = 0
  /\ okSince' = IF /\ cb.state # "closed"
                   /\ openedAt # None
                   /\ clock - openedAt[1] >= cb.timeout
                THEN okSince + 1
                ELSE okSince
  /\ out' = None
  /\ op' = "record_success"
  /\ UNCHANGED <<kvars, rvars, evars, exc, arg, ind, clock, openedAt, failedAt,
                 reopenedAt>>

RecordFailure ==
  /\ cb.failure_count < MaxFailures
  /\ cb' = record_failure(cb, clock)
  /\ streak' = streak + 1
  /\ failedAt' = Some(clock)
  /\ openedAt' = IF cb.state # "open" /\ cb'.state = "open" THEN Some(clock)
                 ELSE openedAt
  /\ reopenedAt' = IF cb.state = "half_open" THEN Some(clock) ELSE reopenedAt
  /\ okSince' = IF cb.state # "open" /\ cb'.state = "open" THEN 0
                ELSE okSince
  /\ out' = None
  /\ op' = "record_failure"
  /\ UNCHANGED <<kvars, rvars, evars, exc, arg, ind, clock>>

BreakerReset ==
  /\ cb' = CircuitBreaker_reset(cb, clock)
  /\ streak' = 0
  /\ okSince' = 0
  /\ out' = None
  /\ op' = "reset"
  /\ UNCHANGED <<kvars, rvars, evars, exc, arg, ind, clock, openedAt, failedAt,
                 reopenedAt>>

NextB == Tick \/ ReadState \/ AllowRequest \/ RecordSuccess
           \/ RecordFailure \/ BreakerReset

SpecBreaker == InitB /\ [][NextB]_vars

\* -------------------------------------------------- cache state machine
MaxGets == 1
MaxSets == 3
MaxGone == 1

CacheKeyInputs == {"a", "b", "c"}
\* keys are opaque: a key not stored before is the next of a, b, c
CacheKeyOrder == <<"a", "b", "c">>
\* each set() stores a value not stored before
CacheData == <<"v1", "v2", "v3", "v4">>
MaxSizes == {0, 1, 2}
DefaultTtls == {1}
TtlInputs == {None, Some(0), Some(2)}

InitK ==
  /\ rs = OhlcvResampler(<<1, "m">>, <<5, "m">>, 5)
  /\ NewResamplerHistory
  /\ eng = IndicatorEngine
  /\ NewEngineHistory
  /\ NewCallHistory
  /\ ind = None
  /\ op = "new"
  /\ NewBreaker
  /\ \E max_size \in MaxSizes, default_ttl \in DefaultTtls :
       lru = LRUCache(max_size, default_ttl)
  /\ dc = DataCenterCache(60, 5, 1, 1000)
  /\ NewCacheHistory

\* the keys a call took out of the cache
Removed(before, after) == CacheKeys(before) \ CacheKeys(after)
Touched(key) == Append(SelectSeq(used, LAMBDA k : k # key), key)
SetKeys ==
  (DOMAIN stored) \cup
    { CacheKeyOrder[i] : i \in {Cardinality(DOMAIN stored) + 1}
                              \cap DOMAIN CacheKeyOrder }

CacheSet ==
  /\ sets < MaxSets
  /\ sets' = sets + 1
  /\ \E key \in SetKeys, data \in {CacheData[sets + 1]},
        ttl \in TtlInputs :
       \E call \in {LRUCache_set(lru, key, data, ttl, clock)} :
         /\ lru' = call.self
         /\ exc' = call.exc
         /\ arg' = Some(<<key>>)
         /\ IF call.exc = None
            THEN /\ used' = Touched(key)
                 /\ stored' = Put(stored, key,
                                  [data |-> data, ttl |-> ttl, at |-> clock])
                 /\ gone' = (gone \cup Removed(lru, call.self)) \ {key}
            ELSE /\ gone' = gone \cup Removed(lru, call.self)
                 /\ UNCHANGED <<used, stored>>
  /\ out' = None
  /\ op' = "set"
  /\ UNCHANGED <<rvars, evars, bvars, ind, dc>>

CacheGet ==
  /\ lru.hits + lru.misses < MaxGets
  /\ \E key \in CacheKeyInputs :
       \E call \in {LRUCache_get(lru, key, clock)} :
         /\ lru' = call.self
         /\ out' = Some(call.result)
         /\ arg' = Some(<<key>>)
         /\ used' = IF call.result # None THEN Touched(key) ELSE used
  /\ exc' = None
  /\ op' = "get"
  /\ UNCHANGED <<rvars, evars, bvars, ind, dc, stored, gone, sets>>

\* delete() while fewer than MaxGone keys were evicted or deleted
CacheDelete ==
  /\ Cardinality(gone) < MaxGone
  /\ \E key \in CacheKeyInputs :
       \E call \in {LRUCache_delete(lru, key)} :
         /\ lru' = call.self
         /\ out' = Some(call.result)
         /\ arg' = Some(<<key>>)
         /\ gone' = gone \cup Removed(lru, call.self)
  /\ exc' = None
  /\ op' = "delete"
  /\ UNCHANGED <<rvars, evars, bvars, ind, dc, used, stored, sets>>

NextK == Tick \/ CacheSet \/ CacheGet \/ CacheDelete

SpecCache == InitK /\ [][NextK]_vars

\* -------------------------------------------- data center state machine
DataCenterSizes == {1, 2, 4}
Symbols == {"BTC/USDT", "ETH/USDT"}
Intervals == {"1h"}
StartTimes == {None, Some(1)}
Limits == {100}

InitD ==
  /\ rs = OhlcvResampler(<<1, "m">>, <<5, "m">>, 5)
  /\ NewResamplerHistory
  /\ eng = IndicatorEngine
  /\ NewEngineHistory
  /\ NewCallHistory
  /\ ind = None
  /\ op = "new"
  /\ NewBreaker
  /\ lru = LRUCache(1000, 300)
  /\ \E max_size \in DataCenterSizes : dc = DataCenterCache(60, 5, 1, max_size)
  /\ NewCacheHistory

SetKline ==
  /\ sets < MaxSets
  /\ sets' = sets + 1
  /\ \E symbol \in Symbols, interval \in Intervals,
        data \in {CacheData[sets + 1]}, start_time \in StartTimes,
        limit \in Limits :
       \E call \in {set_kline(dc, symbol, interval, data, start_time, None,
                              limit, None, clock)} :
         /\ dc' = call.self
         /\ exc' = call.exc
         /\ arg' = Some(<<symbol, interval, data, start_time, None, limit>>)
  /\ out' = None
  /\ op' = "set_kline"
  /\ UNCHANGED <<rvars, evars, bvars, ind, lru, used, stored, gone>>

GetKline ==
  /\ dc.kline_cache.hits + dc.kline_cache.misses < MaxGets
  /\ \E symbol \in Symbols, interval \in Intervals, start_time \in StartTimes,
        limit \in Limits :
       \E call \in {get_kline(dc, symbol, interval, start_time, None, limit,
                              clock)} :
         /\ dc' = call.self
         /\ out' = Some(call.result)
         /\ arg' = Some(<<symbol, interval, start_time, None, limit>>)
  /\ exc' = None
  /\ op' = "get_kline"
  /\ UNCHANGED <<rvars, evars, bvars, ind, lru, used, stored, gone, sets>>

SetTicker ==
  /\ sets < MaxSets
  /\ sets' = sets + 1
  /\ \E symbol \in Symbols, data \in {CacheData[sets + 1]} :
       \E call \in {set_ticker(dc, symbol, data, None, clock)} :
         /\ dc' = call.self
         /\ exc' = call.exc
         /\ arg' = Some(<<symbol, data>>)
  /\ out' = None
  /\ op' = "set_ticker"
  /\ UNCHANGED <<rvars, evars, bvars, ind, lru, used, stored, gone>>

GetTicker ==
  /\ dc.ticker_cache.hits + dc.ticker_cache.misses < MaxGets
  /\ \E symbol \in Symbols :
       \E call \in {get_ticker(dc, symbol, clock)} :
         /\ dc' = call.self
         /\ out' = Some(call.result)
         /\ arg' = Some(<<symbol>>)
  /\ exc' = None
  /\ op' = "get_ticker"
  /\ UNCHANGED <<rvars, evars, bvars, ind, lru, used, stored, gone, sets>>

SetOrderbook ==
  /\ sets < MaxSets
  /\ sets' = sets + 1
  /\ \E symbol \in Symbols, data \in {CacheData[sets + 1]} :
       \E call \in {set_orderbook(dc, symbol, data, None, clock)} :
         /\ dc' = call.self
         /\ exc' = call.exc
         /\ arg' = Some(<<symbol, data>>)
  /\ out' = None
  /\ op' = "set_orderbook"
  /\ UNCHANGED <<rvars, evars, bvars, ind, lru, used, stored, gone>>

GetOrderbook ==
  /\ dc.orderbook_cache.hits + dc.orderbook_cache.misses < MaxGets
  /\ \E symbol \in Symbols :
       \E call \in {get_orderbook(dc, symbol, clock)} :
         /\ dc' = call.self
         /\ out' = Some(call.result)
         /\ arg' = Some(<<symbol>>)
  /\ exc' = None
  /\ op' = "get_orderbook"
  /\ UNCHANGED <<rvars, evars, bvars, ind, lru, used, stored, gone, sets>>

\* every call is made within the same second
NextD == SetKline \/ GetKline \/ SetTicker \/ GetTicker \/ SetOrderbook
           \/ GetOrderbook

SpecDataCenter == InitD /\ [][NextD]_vars

\* ------------------------------------------------- resampler properties
LastFed == fed[Len(fed)]

RECURSIVE SumVolume(_, _, _)
SumVolume(bars, from, to) ==
  IF from > to THEN 0 ELSE bars[from].volume + SumVolume(bars, from + 1, to)

MaxHigh(bars, from, to) ==
  CHOOSE h \in {bars[i].high : i \in from..to} :
    \A i \in from..to : bars[i].high <= h

MinLow(bars, from, to) ==
  CHOOSE l \in {bars[i].low : i \in from..to} :
    \A i \in from..to : bars[i].low >= l

\* the last rs.ratio bars fed are, in order, every source bar of one target
\* period, and flush() was not called since the first of them was fed
FullPeriodFed ==
  /\ rs.ratio >= 1
  /\ Len(fed) >= rs.ratio
  /\ flushedAt <= Len(fed) - rs.ratio
  /\ LET first == Len(fed) - rs.ratio + 1 IN
       /\ fed[first].timestamp % rs.target_seconds_ms = 0
       /\ \A i \in 0..(rs.ratio - 1) :
            fed[first + i].timestamp
              = fed[first].timestamp + i * rs.source_seconds_ms

\* C1: on a stream with strictly increasing timestamps, the add() call that
\* receives the last source bar of a target period (timestamp + source_ms >=
\* period_start + target_ms) returns a bar, and the bar is that period's.
C1_ImmediateEmission ==
  (op = "add" /\ StrictlyIncreasing(fed) /\ ClosesPeriod(LastFed.timestamp))
    => (ret # None /\ ret[1].timestamp = PeriodOf(LastFed.timestamp))

C1_Witness ==
  /\ op = "add"
  /\ Len(fed) >= 3
  /\ StrictlyIncreasing(fed)
  /\ ClosesPeriod(LastFed.timestamp)
  /\ ~ClosesPeriod(fed[Len(fed) - 1].timestamp)
  /\ ret # None

\* C2: when every source bar of a target period has been fed in order, the
\* bar returned by the add() of the last one has the first bar's open, the
\* last bar's close, the maximum high, the minimum low and the summed
\* volume of the period's bars, whatever was aggregated before the period.
C2_Conservation ==
  (op = "add" /\ FullPeriodFed) =>
    LET first == Len(fed) - rs.ratio + 1 IN
      /\ ret # None
      /\ ret[1].open = fed[first].open
      /\ ret[1].close = LastFed.close
      /\ ret[1].high = MaxHigh(fed, first, Len(fed))
      /\ ret[1].low = MinLow(fed, first, Len(fed))
      /\ ret[1].volume = SumVolume(fed, first, Len(fed))

\* a full period fed after an earlier, partially fed period was emitted
C2_Witness ==
  /\ op = "add"
  /\ FullPeriodFed
  /\ Len(fed) > rs.ratio
  /\ Len(emitted) >= 2
  /\ ret # None
  /\ ret[1].high > ret[1].close
  /\ ret[1].volume > LastFed.volume

\* timestamp of the last source bar folded into the bar just returned: the
\* bar just fed when it closed its period, the bar fed before it when add()
\* returned the pending aggregate of the period left, the last bar fed for
\* flush()
LastFoldedTs ==
  IF op = "add" /\ ~ClosesPeriod(LastFed.timestamp)
  THEN fed[Len(fed) - 1].timestamp
  ELSE LastFed.timestamp

\* C3: every bar returned by add() or flush(), for any stream on the source
\* grid, has a timestamp divisible by target_ms that is the start of the
\* period of the last source bar folded into it, and timeframe target_tf.
C3_Alignment ==
  ret # None =>
    /\ ret[1].timestamp % rs.target_seconds_ms = 0
    /\ ret[1].timestamp
         = (LastFoldedTs \div rs.target_seconds_ms) * rs.target_seconds_ms
    /\ ret[1].timeframe = rs.target_tf

\* a bar returned for a period whose first fed bar was not the period's first
C3_Witness ==
  /\ ret # None
  /\ Len(fed) >= 2
  /\ \E i \in 1..Len(fed) :
       /\ PeriodOf(fed[i].timestamp) = ret[1].timestamp
       /\ fed[i].timestamp # ret[1].timestamp
  /\ \A i \in 1..Len(fed) : fed[i].timestamp # ret[1].timestamp

\* C4: each call returns at most one bar; an add() that meets a pending
\* aggregate of another period with a bar closing its own period returns the
\* close of the bar's period, and no later add() or flush() returns a bar of
\* the period whose aggregate was dropped (timestamps strictly increasing).
C4_OnePerCall ==
  /\ Len(emitted) <= Len(fed) + flushes
  /\ (both /\ StrictlyIncreasing(fed)) =>
       ret = Some(IndicatorBar(PeriodOf(LastFed.timestamp), LastFed.open,
                               LastFed.high, LastFed.low, LastFed.close,
                               LastFed.volume, rs.target_tf))
  /\ (ret # None /\ StrictlyIncreasing(fed)) =>
       ret[1].timestamp \notin superseded

\* calls after one that dropped a pending aggregate, one of them returning
C4_Witness ==
  /\ superseded # {}
  /\ ~both
  /\ StrictlyIncreasing(fed)
  /\ ret # None
  /\ Len(emitted) >= 2

FedTimestamps == [i \in 1..Len(fed) |-> fed[i].timestamp]

Is1mTo5m == rs.source_tf = <<1, "m">> /\ rs.target_tf = <<5, "m">>

\* C5 as stated: after bars at 0, 60000, 180000, 240000, the add() of the
\* bar at 300000 returns the first period's partial aggregate (timestamp 0)
\* and starts the period at 300000.
C5_GapFlushAt300000 ==
  (Is1mTo5m /\ op = "add" /\ flushes = 0
     /\ FedTimestamps = <<0, 60000, 180000, 240000, 300000>>)
    => /\ ret # None
       /\ ret[1].timestamp = 0
       /\ rs.current_period_start = Some(300000)

\* C5 amended: the add() of the bar at 240000 (the last bar of the first
\* period) returns the partial aggregate of the four bars seen, timestamp 0,
\* and resets; the add() of the bar at 300000 returns nothing and starts the
\* period at 300000 with that bar alone.
C5_GapEmitsAt240000 ==
  /\ (Is1mTo5m /\ op = "add" /\ flushes = 0
        /\ FedTimestamps = <<0, 60000, 180000, 240000>>)
       => /\ ret = Some(IndicatorBar(0, fed[1].open, MaxHigh(fed, 1, 4),
                                     MinLow(fed, 1, 4), fed[4].close,
                                     SumVolume(fed, 1, 4), <<5, "m">>))
          /\ rs.pending_open = None
          /\ rs.current_period_start = None
          /\ rs.count = 0
  /\ (Is1mTo5m /\ op = "add" /\ flushes = 0
        /\ FedTimestamps = <<0, 60000, 180000, 240000, 300000>>)
       => /\ ret = None
          /\ Len(emitted) = 1
          /\ rs.current_period_start = Some(300000)
          /\ rs.pending_open = Some(fed[5].open)
          /\ rs.pending_ts = 300000
          /\ rs.count = 1

C5_Witness ==
  /\ Is1mTo5m
  /\ op = "add"
  /\ flushes = 0
  /\ FedTimestamps = <<0, 60000, 180000, 240000, 300000>>
  /\ Len(emitted) = 1
  /\ emitted[1].timestamp = 0

\* ---------------------------------------------------- engine properties
\* the minute a bar starts at, and whether a bar of timeframe S at that
\* minute is the last S bar of its T period
MinuteOf(b) == b.timestamp \div 60000
PeriodStartMinute(m, T) == (m \div GridMinutes(T)) * GridMinutes(T)
ClosesPeriodOf(b, T) ==
  MinuteOf(b) + GridMinutes(b.timeframe)
    >= PeriodStartMinute(MinuteOf(b), T) + GridMinutes(T)
IsHigherMultiple(S, T) ==
  /\ GridMinutes(T) > GridMinutes(S)
  /\ GridMinutes(T) % GridMinutes(S) = 0

\* a bar whose close is a number
WellFormed(b) == b.close # NullPrice

\* C6: an update(bar) that returns, with a well-formed bar of timeframe S
\* that is the last source bar of a period of a higher timeframe T (an
\* integer multiple of S), updates every indicator declared on T exactly
\* once with the aggregated bar: bar_count grows by 1 and
\* last_bar_ts_by_timeframe[T] is the period's start.
C6_HigherTimeframeFed ==
  [][(op' = "update" /\ exc' = None /\ WellFormed(lastBar'[1])) =>
       \A id \in DOMAIN eng.indicators :
         LET S == lastBar'[1].timeframe
             T == declared[id] IN
         (IsHigherMultiple(S, T) /\ ClosesPeriodOf(lastBar'[1], T)) =>
           /\ eng'.indicators[id].bar_count = eng.indicators[id].bar_count + 1
           /\ T \in DOMAIN eng'.last_bar_ts_by_timeframe
           /\ eng'.last_bar_ts_by_timeframe[T]
                = PeriodStartMinute(MinuteOf(lastBar'[1]), T) * 60000]_vars

\* C7: an update(bar) that returns, with a well-formed bar of a canonical
\* timeframe T, updates exactly once each indicator registered with
\* timeframe T (bar_count + 1, last_bar_ts = bar.timestamp) and leaves every
\* indicator registered on another timeframe as it was (the engine has no
\* resampler that could emit for it).
C7_SameTimeframeOnly ==
  [][(op' = "update" /\ exc' = None /\ WellFormed(lastBar'[1])) =>
       \A id \in DOMAIN eng.indicators :
         IF declared[id] = lastBar'[1].timeframe
         THEN /\ eng'.indicators[id].bar_count
                   = eng.indicators[id].bar_count + 1
              /\ eng'.indicators[id].last_bar_ts = Some(lastBar'[1].timestamp)
         ELSE eng'.indicators[id] = eng.indicators[id]]_vars

\* C8: a register_requirements call that fails leaves requirements,
\* indicators and timestamp records exactly as they were before the call.
C8_RegisterAllOrNothing ==
  [][(op' = "register" /\ err') => eng' = eng]_vars

\* the indicators the engine holds, those held on a timeframe, and the last
\* bar timestamps recorded
Held == DOMAIN eng.indicators
HeldOn(timeframe) ==
  {id \in Held : eng.indicators[id].requirement.timeframe = timeframe}
Recorded == eng.last_bar_ts_by_timeframe

\* C12: in every snapshot(), the top-level is_warmed_up is true exactly when
\* every indicator the engine holds is warmed up, and for each timeframe in
\* by_timeframe, its is_warmed_up is true exactly when every indicator held
\* on that timeframe is warmed up.
C12_SnapshotWarmup ==
  LET snap == snapshot(eng) IN
  /\ snap["is_warmed_up"] <=> \A id \in Held : is_warmed_up(eng.indicators[id])
  /\ DOMAIN snap["by_timeframe"]
       = {eng.indicators[id].requirement.timeframe : id \in Held}
  /\ \A timeframe \in DOMAIN snap["by_timeframe"] :
       snap["by_timeframe"][timeframe]["is_warmed_up"]
         <=> \A id \in HeldOn(timeframe) : is_warmed_up(eng.indicators[id])

\* one timeframe warmed up, another not, the engine as a whole not
C12_Witness ==
  LET snap == snapshot(eng) IN
  /\ exc = None
  /\ ~snap["is_warmed_up"]
  /\ \E t1 \in DOMAIN snap["by_timeframe"], t2 \in DOMAIN snap["by_timeframe"] :
       /\ snap["by_timeframe"][t1]["is_warmed_up"]
       /\ ~snap["by_timeframe"][t2]["is_warmed_up"]

\* C13: after every update(bar) of a well-formed bar, whatever indicators
\* are held, last_bar_ts_by_timeframe[bar.timeframe] is bar.timestamp and
\* the wall-clock time of the last update is set, so that snapshot() has a
\* timestamp.
C13_UpdateRecordsBar ==
  (op = "update" /\ exc = None /\ WellFormed(lastBar[1])) =>
    /\ lastBar[1].timeframe \in DOMAIN Recorded
    /\ Recorded[lastBar[1].timeframe] = lastBar[1].timestamp
    /\ eng.last_update_ts # None
    /\ snapshot(eng)["timestamp"] # None

\* C14: in every snapshot(), the top-level bar_close_ts is the maximum of the
\* last bar timestamps recorded over all timeframes, null when none is
\* recorded, and by_timeframe[tf].bar_close_ts is the timestamp recorded for
\* tf (null when none is): the timestamp of the bar of the last update()
\* when that bar was of timeframe tf.
C14_BarCloseTs ==
  LET snap == snapshot(eng) IN
  /\ (DOMAIN Recorded = {}) <=> (snap["bar_close_ts"] = None)
  /\ snap["bar_close_ts"] # None =>
       /\ \E tf \in DOMAIN Recorded : Recorded[tf] = snap["bar_close_ts"][1]
       /\ \A tf \in DOMAIN Recorded : Recorded[tf] <= snap["bar_close_ts"][1]
  /\ \A tf \in DOMAIN snap["by_timeframe"] :
       /\ snap["by_timeframe"][tf]["bar_close_ts"]
            = IF tf \in DOMAIN Recorded THEN Some(Recorded[tf]) ELSE None
       /\ (op = "update" /\ exc = None /\ lastBar[1].timeframe = tf) =>
            snap["by_timeframe"][tf]["bar_close_ts"]
              = Some(lastBar[1].timestamp)

\* two timeframes whose last bars differ, the newer one not the last updated
C14_Witness ==
  LET snap == snapshot(eng) IN
  /\ op = "update"
  /\ exc = None
  /\ \E t1 \in DOMAIN snap["by_timeframe"], t2 \in DOMAIN snap["by_timeframe"] :
       /\ snap["by_timeframe"][t1]["bar_close_ts"] # None
       /\ snap["by_timeframe"][t2]["bar_close_ts"] # None
       /\ snap["by_timeframe"][t1]["bar_close_ts"][1]
            > snap["by_timeframe"][t2]["bar_close_ts"][1]
       /\ lastBar[1].timeframe = t2
       /\ snap["bar_close_ts"] = snap["by_timeframe"][t1]["bar_close_ts"]

\* C15: after reset(), whatever registrations and updates preceded it, the
\* engine is as newly constructed (no requirements, no indicators, no
\* timestamps) and so is its snapshot(): no indicator entries, timestamp
\* null, bar_close_ts null, by_timeframe empty.
C15_ResetClears ==
  op = "reset" =>
    /\ eng = IndicatorEngine
    /\ snapshot(eng) = snapshot(IndicatorEngine)
    /\ DOMAIN snapshot(eng)
         = {"is_warmed_up", "timestamp", "bar_close_ts", "by_timeframe"}
    /\ snapshot(eng)["timestamp"] = None
    /\ snapshot(eng)["bar_close_ts"] = None
    /\ DOMAIN snapshot(eng)["by_timeframe"] = {}

\* a reset() of an engine that held indicators and timestamps
C15_Witness == op = "reset" /\ resetUsed /\ regs > 0 /\ lastBar # None

\* C16 as stated: two engines given the same registrations and the same bars
\* have equal snapshots (every key, timestamp included) after every step.
C16_IdenticalSnapshots == snapshot(eng) = snapshot(twin)

\* C16 amended: after every step the two snapshots have the same keys and
\* are equal at every key but "timestamp", which is null in both or set in
\* both (to the wall-clock time each engine read at its last update).
C16_IdenticalButTimestamp ==
  LET snap == snapshot(eng)
      twin_snap == snapshot(twin) IN
  /\ DOMAIN snap = DOMAIN twin_snap
  /\ \A k \in DOMAIN snap \ {"timestamp"} : snap[k] = twin_snap[k]
  /\ (snap["timestamp"] = None) <=> (twin_snap["timestamp"] = None)

\* warmed up engines with bars recorded whose timestamps differ
C16_Witness ==
  /\ exc = None
  /\ Held # {}
  /\ snapshot(eng)["is_warmed_up"]
  /\ snapshot(eng)["bar_close_ts"] # None
  /\ snapshot(eng)["timestamp"] # None
  /\ snapshot(eng)["timestamp"] # snapshot(twin)["timestamp"]

\* C17: when an indicator's update raises during update(bar), the exception
\* that leaves update() is an IndicatorUpdateError carrying the id of the
\* indicator that raised and the bar's timestamp.
C17_UpdateErrorWrapped ==
  (op = "update" /\ exc # None) =>
    /\ exc[1].type = "IndicatorUpdateError"
    /\ exc[1].id \in Held
    /\ exc[1].timestamp = lastBar[1].timestamp

\* C18: register_requirements raises the unsupported-type error only for a
\* (lowercased) type tag outside the registry's tags, and every indicator it
\* built has a tag of the registry: a tag of the registry is never rejected
\* as unsupported.
C18_UnsupportedIffUnregistered ==
  /\ (op = "register" /\ exc # None
        /\ exc[1].message[1] = "unsupported indicator type: ")
       => exc[1].message[2] \notin TALIPP_REGISTRY
  /\ \A id \in Held : eng.indicators[id].requirement.type \in TALIPP_REGISTRY

\* ------------------------------------------------- indicator properties
\* the warmup period by family: period for EMA and Bollinger, period + 1 for
\* RSI, slow + signal for MACD
StatedWarmup(i) ==
  CASE i.class = "EMAIndicator" -> i.period
    [] i.class = "BollingerIndicator" -> i.period
    [] i.class = "RSIIndicator" -> i.period + 1
    [] i.class = "MACDIndicator" -> i.slow_period + i.signal_period

\* C9: after any sequence of updates, is_warmed_up is true exactly when
\* bar_count >= warmup_period.
C9_WarmedUpIffCount ==
  ind # None =>
    (is_warmed_up(ind[1]) <=> ind[1].bar_count >= StatedWarmup(ind[1]))

\* no null in the value: the scalar of EMA and RSI, every field of the MACD
\* and Bollinger records
NonNull(i) ==
  CASE i.class \in {"EMAIndicator", "RSIIndicator"} -> value(i) # None
    [] i.class = "MACDIndicator" ->
         \A f \in {"fast_line", "signal_line", "histogram", "diff", "dea",
                   "macd", "ema_fast", "ema_slow"} : value(i)[f] # None
    [] i.class = "BollingerIndicator" ->
         \A f \in {"upper", "middle", "lower", "bandwidth"} :
           value(i)[f] # None

\* C10: whenever bar_count >= warmup_period, value() has no null: the scalar
\* of EMA and RSI, every field of the MACD and Bollinger records.
C10_ValueNonNullOnceWarm ==
  (ind # None /\ ind[1].bar_count >= StatedWarmup(ind[1])) => NonNull(ind[1])

\* a MACD two bars past slow + signal with a non-zero histogram
C10_Witness ==
  /\ ind # None
  /\ ind[1].class = "MACDIndicator"
  /\ ind[1].bar_count >= StatedWarmup(ind[1]) + 1
  /\ ind[1].signal_period >= 2
  /\ NonNull(ind[1])
  /\ value(ind[1]).histogram # Some(Q(0))

\* C11: once is_warmed_up is true after an update, it is true after the next
\* update, for every indicator class and every bar.
C11_MonotonicWarmup ==
  [][(ind # None /\ is_warmed_up(ind[1])) => is_warmed_up(ind'[1])]_vars

\* an indicator three updates past the one that warmed it up
C11_Witness ==
  /\ ind # None
  /\ is_warmed_up(ind[1])
  /\ ind[1].bar_count >= StatedWarmup(ind[1]) + 3

\* the parameters the constructors are to reject: a period, fast, slow or
\* signal that is not positive, a Bollinger std_dev that is not positive, a
\* MACD fast that is not below slow
InvalidParams(requirement) ==
  LET params == requirement.params IN
  CASE requirement.type \in {"ema", "rsi"} -> params.period <= 0
    [] requirement.type = "boll" -> params.period <= 0 \/ params.std_dev <= 0
    [] requirement.type = "macd" ->
         \/ params.fast <= 0 \/ params.slow <= 0 \/ params.signal <= 0
         \/ params.fast >= params.slow

\* C19: constructing an indicator raises exactly when a numeric parameter is
\* not positive (period of EMA, RSI, Bollinger; std_dev of Bollinger; fast,
\* slow, signal of MACD) or MACD's fast is not below slow.
C19_ConstructionRejectsInvalid ==
  op = "construct" =>
    /\ (exc # None) <=> InvalidParams(arg[1])
    /\ (ind = None) <=> InvalidParams(arg[1])

\* --------------------------------------------------- timeframe properties
\* C20: calculate_resample_ratio(source_tf, target_tf) returns target / source
\* exactly when the target timeframe is strictly longer than the source and
\* an integer multiple of it, and raises otherwise (target equal to the
\* source, shorter, or not a multiple).
C20_RatioIffLargerMultiple ==
  op = "calculate_resample_ratio" =>
    LET source == GridMinutes(arg[1][1])
        target == GridMinutes(arg[1][2]) IN
    IF target > source /\ target % source = 0
    THEN out = Some(target \div source)
    ELSE out = Some(TfError)

\* C25: an indicator created by register_requirements under an id keeps its
\* identity and its accumulated state (bar_count, last_bar_ts, value) until
\* reset(): a later register_requirements call, even one naming the same id,
\* does not destroy, replace or reset it.
C25_RegistrationKeepsIndicators ==
  [][op' = "register" =>
       \A id \in DOMAIN eng.indicators :
         /\ id \in DOMAIN eng'.indicators
         /\ eng'.indicators[id] = eng.indicators[id]]_vars

\* first position of fed of the bars pending before a flush(): the bars fed
\* since the last flush() that belong to the period of the last bar fed
FirstPending ==
  CHOOSE i \in (flushedAt + 1)..Len(fed) :
    /\ PeriodOf(fed[i].timestamp) = PeriodOf(LastFed.timestamp)
    /\ \A j \in (flushedAt + 1)..(i - 1) :
         PeriodOf(fed[j].timestamp) # PeriodOf(LastFed.timestamp)

\* C24: on a stream with strictly increasing timestamps, flush() returns the
\* pending partial aggregate whenever at least one source bar has been folded
\* since the last emission, and leaves nothing pending (pending_count 0,
\* current_period_start None); flush() with nothing pending returns None and
\* changes no state, so that of two consecutive flush() calls at most one
\* returns a bar.
C24_FlushOnce ==
  [][op' = "flush" =>
       /\ HasPending =>
            /\ ret' = Some(IndicatorBar(
                              PeriodOf(LastFed.timestamp),
                              fed[FirstPending].open,
                              MaxHigh(fed, FirstPending, Len(fed)),
                              MinLow(fed, FirstPending, Len(fed)),
                              LastFed.close,
                              SumVolume(fed, FirstPending, Len(fed)),
                              rs.target_tf))
            /\ rs'.count = 0
            /\ rs'.current_period_start = None
       /\ ~HasPending => ret' = None /\ rs' = rs
       /\ (op = "flush" /\ ret # None) => ret' = None]_vars

\* flush() returned None right after a flush() that returned the aggregate
\* of two pending bars
C24_Witness ==
  /\ op = "flush"
  /\ ret = None
  /\ flushes >= 2
  /\ flushedAt = Len(fed)
  /\ Len(fed) >= 2
  /\ ~ClosesPeriod(LastFed.timestamp)
  /\ PeriodOf(fed[Len(fed) - 1].timestamp) = PeriodOf(LastFed.timestamp)
  /\ emitted # <<>>
  /\ emitted[Len(emitted)].volume
       = fed[Len(fed) - 1].volume + LastFed.volume
  /\ rs.count = 0
  /\ rs.current_period_start = None

\* canonical timeframe strings
CanonicalTimeframes ==
  { <<1, "m">>, <<3, "m">>, <<5, "m">>, <<15, "m">>, <<30, "m">>, <<1, "h">>,
    <<2, "h">>, <<4, "h">>, <<6, "h">>, <<8, "h">>, <<12, "h">>, <<1, "d">>,
    <<3, "d">>, <<1, "w">>, <<1, "M">> }

\* seconds of a unit letter in the timeframe-to-seconds table
UnitSeconds(unit) ==
  CASE unit = "m" -> 60
    [] unit = "h" -> 3600
    [] unit = "d" -> 86400
    [] unit = "w" -> 604800
    [] unit = "M" -> 2592000

\* C21: the timeframe-to-seconds conversion maps every canonical timeframe
\* string n<unit> to n times the seconds of the unit, with m = 60, h = 3600,
\* d = 86400, w = 604800 and M = 2592000 ("1M" is 2592000 seconds, "1m" 60).
C21_SecondsTable ==
  op = "_tf_to_seconds" /\ arg[1][1] \in CanonicalTimeframes =>
    out = Some(arg[1][1][1] * UnitSeconds(arg[1][1][2]))

\* C22: only the canonical timeframe strings are accepted:
\* register_requirements, calculate_resample_ratio and the construction of
\* an OhlcvResampler fail for every other timeframe string ("2m", "7h",
\* "45m").
C22_OnlyCanonicalAccepted ==
  /\ op = "register_requirements" /\ arg[1][1] \notin CanonicalTimeframes
       => exc # None
  /\ op = "calculate_resample_ratio"
       /\ (arg[1][1] \notin CanonicalTimeframes
             \/ arg[1][2] \notin CanonicalTimeframes)
       => out = Some(TfError)
  /\ op = "OhlcvResampler"
       /\ (arg[1][1] \notin CanonicalTimeframes
             \/ arg[1][2] \notin CanonicalTimeframes)
       => exc # None

\* C26: once a MACD is warmed up, histogram = fast_line - signal_line,
\* fast_line = diff = ema_fast - ema_slow, signal_line = dea and macd =
\* histogram, all of the same bar.
C26_MacdIdentity ==
  (ind # None /\ ind[1].class = "MACDIndicator" /\ is_warmed_up(ind[1])) =>
    LET v == value(ind[1]) IN
    /\ NonNull(ind[1])
    /\ v.histogram = Some(QSub(v.fast_line[1], v.signal_line[1]))
    /\ v.fast_line = v.diff
    /\ v.diff = Some(QSub(v.ema_fast[1], v.ema_slow[1]))
    /\ v.signal_line = v.dea
    /\ v.macd = v.histogram

\* a warmed MACD, two bars after its signal line was seeded, whose lines
\* differ from each other and from zero
C26_Witness ==
  /\ ind # None
  /\ ind[1].class = "MACDIndicator"
  /\ is_warmed_up(ind[1])
  /\ ind[1].signal.count >= ind[1].signal_period + 2
  /\ value(ind[1]).fast_line # Some(Q(0))
  /\ value(ind[1]).signal_line # Some(Q(0))
  /\ value(ind[1]).fast_line # value(ind[1]).signal_line

\* C27: once an RSI is warmed up, 0 <= rsi <= 100, and rsi is exactly 100
\* whenever the smoothed average loss is 0.
C27_RsiBounds ==
  (ind # None /\ ind[1].class = "RSIIndicator" /\ is_warmed_up(ind[1])) =>
    /\ value(ind[1]) # None
    /\ QLe(Q(0), value(ind[1])[1])
    /\ QLe(value(ind[1])[1], Q(100))
    /\ ind[1].avg_loss[1] = Q(0) => value(ind[1]) = Some(Q(100))

\* a warmed RSI past its first smoothing step that saw gains above its
\* losses: its value is strictly between 50 and 100
C27_Witness ==
  /\ ind # None
  /\ ind[1].class = "RSIIndicator"
  /\ is_warmed_up(ind[1])
  /\ ind[1].change_count > ind[1].period
  /\ QLt(Q(0), ind[1].avg_loss[1])
  /\ QLt(ind[1].avg_loss[1], ind[1].avg_gain[1])
  /\ QLt(Q(50), value(ind[1])[1])
  /\ QLt(value(ind[1])[1], Q(100))

\* base + coef * sqrt(radicand) >= 0, for radicand >= 0
SurdNonNeg(x) ==
  \/ QLe(Q(0), x.base) /\ QLe(Q(0), x.coef)
  \/ /\ QLe(Q(0), x.base)
     /\ QLe(QMul(QMul(x.coef, x.coef), x.radicand), QMul(x.base, x.base))
  \/ /\ QLe(Q(0), x.coef)
     /\ QLe(QMul(x.base, x.base), QMul(QMul(x.coef, x.coef), x.radicand))

\* a - b, for two values over the same radicand
SurdSub(a, b) ==
  Surd(QSub(a.base, b.base), QSub(a.coef, b.coef), a.radicand)

SurdLe(a, b) == SurdNonNeg(SurdSub(b, a))

\* C28: for every Bollinger indicator that construction accepts, once warmed
\* up, lower <= middle <= upper and bandwidth = upper - lower >= 0.
C28_BandsOrdered ==
  (ind # None /\ ind[1].class = "BollingerIndicator"
     /\ is_warmed_up(ind[1])) =>
    LET v == value(ind[1])
        middle == Surd(v.middle[1], Q(0), v.upper[1].radicand) IN
    /\ SurdLe(v.lower[1], middle)
    /\ SurdLe(middle, v.upper[1])
    /\ v.bandwidth[1] = SurdSub(v.upper[1], v.lower[1])
    /\ SurdNonNeg(v.bandwidth[1])

\* closes of the bars the indicator was updated with
Closes == [k \in 1..Len(fed) |-> fed[k].close]

RECURSIVE SumCloses(_, _)
SumCloses(closes, n) ==
  IF n = 0 THEN Q(0) ELSE QAdd(SumCloses(closes, n - 1), Q(closes[n]))

\* the EMA after n >= period closes: the arithmetic mean of the first period
\* closes, then (close - ema) * alpha + ema with alpha = 2 / (period + 1)
RECURSIVE EmaAfter(_, _, _)
EmaAfter(closes, period, n) ==
  IF n = period THEN QDiv(SumCloses(closes, period), Q(period))
  ELSE LET ema == EmaAfter(closes, period, n - 1) IN
       QAdd(QMul(QSub(Q(closes[n]), ema), Norm(2, period + 1)), ema)

\* C29: the value of an EMA(period) is null before period bars, the
\* arithmetic mean of the first period closes after exactly period bars, and
\* (close - ema) * alpha + ema with alpha = 2 / (period + 1) after every
\* later bar; period 3 with the closes 10, 20, 30, 40 gives null, null, 20,
\* 30.
C29_EmaSeedThenSmooth ==
  (ind # None /\ ind[1].class = "EMAIndicator") =>
    /\ Len(fed) < ind[1].period => value(ind[1]) = None
    /\ Len(fed) >= ind[1].period =>
         value(ind[1]) = Some(EmaAfter(Closes, ind[1].period, Len(fed)))
    /\ (ind[1].period = 3 /\ Closes \in {<<10>>, <<10, 20>>}) =>
         value(ind[1]) = None
    /\ (ind[1].period = 3 /\ Closes = <<10, 20, 30>>) =>
         value(ind[1]) = Some(Q(20))
    /\ (ind[1].period = 3 /\ Closes = <<10, 20, 30, 40>>) =>
         value(ind[1]) = Some(Q(30))

\* the EMA(3) fed the closes 10, 20, 30, 40
C29_Witness ==
  /\ ind # None
  /\ ind[1].class = "EMAIndicator"
  /\ ind[1].period = 3
  /\ Closes = <<10, 20, 30, 40>>
  /\ value(ind[1]) = Some(Q(30))

\* ---------------------------------------------------- lifecycle properties
\* the six columns are present and as long as the close column
Parallel(ohlcv) ==
  /\ DOMAIN ohlcv = {"timestamps", "open", "high", "low", "close", "volume"}
  /\ \A key \in DOMAIN ohlcv : Len(ohlcv[key]) = Len(ohlcv["close"])

\* the bars of parallel columns, in array order
ColumnBars(ohlcv, timeframe) ==
  [i \in 1..Len(ohlcv["close"]) |->
     IndicatorBar(ohlcv["timestamps"][i], ohlcv["open"][i], ohlcv["high"][i],
                  ohlcv["low"][i], ohlcv["close"][i], ohlcv["volume"][i],
                  timeframe)]

\* the engine after update() was called once per bar, in order
RECURSIVE UpdateEach(_, _, _)
UpdateEach(e, bars, now) ==
  IF bars = <<>> THEN e
  ELSE UpdateEach(engine_update(e, Head(bars), now), Tail(bars), now)

\* C23: warmup_from_ohlcv(columns, timeframe) leaves the engine in exactly
\* the state reached by calling update() once per index, in array order,
\* with the bar built from timestamps[i], open[i], high[i], low[i], close[i],
\* volume[i] and the given timeframe; with an empty close column it changes
\* nothing.
C23_WarmupIsUpdateEach ==
  [][op' = "warmup_from_ohlcv" =>
       /\ Parallel(arg'[1][1]) =>
            \E now \in ClockReadings :
              eng' = UpdateEach(eng, ColumnBars(arg'[1][1], arg'[1][2]), now)
       /\ Get(arg'[1][1], "close", <<>>) = <<>> => eng' = eng]_vars

\* two bars of parallel columns were fed by one warmup_from_ohlcv to an
\* engine holding an indicator of their timeframe
C23_Witness ==
  /\ op = "warmup_from_ohlcv"
  /\ exc = None
  /\ Parallel(arg[1][1])
  /\ Len(arg[1][1]["close"]) = 2
  /\ arg[1][2] \in DOMAIN eng.last_bar_ts_by_timeframe
  /\ eng.last_bar_ts_by_timeframe[arg[1][2]] = arg[1][1]["timestamps"][2]
  /\ arg[1][1]["timestamps"][2] > 0

\* ---------------------------------------------- circuit breaker properties
\* the step is a call of the method name (the steps that are not calls let
\* time pass)
Calls(name) == op' = name /\ clock' = clock

\* C30: starting from CLOSED, the breaker enters OPEN exactly on the
\* record_failure() call that brings the number of consecutive failures
\* (failures since the last record_success()) to failure_threshold; with
\* fewer consecutive failures it stays CLOSED and allow_request() is true;
\* once OPEN, allow_request() is false as long as the timeout has not elapsed
\* since it opened.
C30_OpensAtThreshold ==
  [][/\ (cb.state = "closed" /\ Calls("record_failure")) =>
          (cb'.state = "open" <=> streak' = cb.failure_threshold)
     /\ (cb.state = "closed" /\ cb'.state # "closed") =>
          Calls("record_failure")
     /\ (cb.state = "closed" /\ streak < cb.failure_threshold
           /\ Calls("allow_request")) =>
          (out' = Some(TRUE) /\ cb'.state = "closed")
     /\ (cb.state = "open" /\ Calls("allow_request")
           /\ clock - openedAt[1] < cb.timeout) =>
          (out' = Some(FALSE) /\ cb'.state = "open")]_vars

\* allow_request() returned false on a breaker of threshold 3 that its third
\* consecutive failure opened a second ago
C30_Witness ==
  /\ op = "allow_request"
  /\ out = Some(FALSE)
  /\ cb.state = "open"
  /\ cb.failure_threshold = 3
  /\ streak = 3
  /\ cb.failure_count = 3
  /\ openedAt # None
  /\ clock = openedAt[1] + 1
  /\ clock > 1

\* C31: an OPEN breaker moves to HALF_OPEN, and allow_request() returns true,
\* as soon as its state is observed at least timeout seconds after the most
\* recent recorded failure; observed earlier than that it remains OPEN and
\* allow_request() returns false.
C31_HalfOpenAfterTimeout ==
  [][(cb.state = "open" /\ failedAt # None) =>
       /\ Calls("allow_request") =>
            IF clock - failedAt[1] >= cb.timeout
            THEN cb'.state = "half_open" /\ out' = Some(TRUE)
            ELSE cb'.state = "open" /\ out' = Some(FALSE)
       /\ Calls("state") =>
            IF clock - failedAt[1] >= cb.timeout
            THEN cb'.state = "half_open" /\ out' = Some("half_open")
            ELSE cb'.state = "open" /\ out' = Some("open")]_vars

\* allow_request() returned true on the trial of a breaker whose last
\* failure was recorded while it was OPEN, timeout = 2 seconds before
C31_Witness ==
  /\ op = "allow_request"
  /\ out = Some(TRUE)
  /\ cb.state = "half_open"
  /\ cb.timeout = 2
  /\ failedAt # None
  /\ openedAt # None
  /\ failedAt[1] > openedAt[1]
  /\ cb.last_state_change = failedAt[1] + 2
  /\ clock = failedAt[1] + 2

\* C32: a breaker whose timeout has elapsed since it opened returns to
\* CLOSED exactly on the success_threshold-th record_success() after that
\* point, with the failure count reset to 0; with fewer successes it is
\* HALF_OPEN; successes recorded before the breaker opened do not count
\* toward the threshold.
C32_ClosesAtSuccessThreshold ==
  [][(/\ cb.state # "closed"
      /\ openedAt # None
      /\ clock - openedAt[1] >= cb.timeout
      /\ Calls("record_success")) =>
       IF okSince' = cb.success_threshold
       THEN cb'.state = "closed" /\ cb'.failure_count = 0
       ELSE /\ cb'.state # "closed"
            /\ okSince' < cb.success_threshold =>
                 CircuitBreaker_state(cb', clock).result = "half_open"]_vars

\* C33: in HALF_OPEN, a single record_failure() moves the breaker back to
\* OPEN at once, whatever failure_threshold and the number of successes
\* already recorded in HALF_OPEN, and allow_request() is then false until a
\* full timeout has elapsed again from that failure.
C33_TrialFailureReopens ==
  [][/\ (cb.state = "half_open" /\ Calls("record_failure")) =>
          cb'.state = "open"
     /\ (/\ cb.state = "open"
         /\ reopenedAt # None
         /\ openedAt = reopenedAt
         /\ failedAt = reopenedAt
         /\ Calls("allow_request")) =>
          IF clock - reopenedAt[1] < cb.timeout
          THEN out' = Some(FALSE) /\ cb'.state = "open"
          ELSE out' = Some(TRUE) /\ cb'.state = "half_open"]_vars

\* allow_request() returned false a second after the failure of a trial
\* that had seen one success, on a breaker of failure threshold 3
C33_Witness ==
  /\ op = "allow_request"
  /\ out = Some(FALSE)
  /\ cb.state = "open"
  /\ cb.failure_threshold = 3
  /\ cb.success_threshold = 2
  /\ cb.success_count = 1
  /\ cb.timeout = 2
  /\ reopenedAt # None
  /\ openedAt = reopenedAt
  /\ failedAt = reopenedAt
  /\ clock = reopenedAt[1] + 1


\* the least recently used of the keys the cache holds: the first of them in
\* the order of their last set() or successful get()
LruKey(c) == SelectSeq(used, LAMBDA k : k \in CacheKeys(c))[1]

\* C34: a set() that stores a new key in an LRUCache holding max_size
\* entries evicts exactly one entry, the least recently used one; a get()
\* of any other held key returns what it returned before; the size never
\* exceeds max_size
C34_EvictsLeastRecentlyUsed ==
  /\ [](Len(lru.cache) <= lru.max_size)
  /\ [][(/\ Calls("set")
         /\ exc' = None
         /\ arg'[1][1] \notin CacheKeys(lru)
         /\ Len(lru.cache) = lru.max_size) =>
          /\ Removed(lru, lru') = {LruKey(lru)}
          /\ CacheKeys(lru') = (CacheKeys(lru) \ {LruKey(lru)}) \cup {arg'[1][1]}
          /\ \A k \in CacheKeys(lru) \ {LruKey(lru)} :
               LRUCache_get(lru', k, clock).result
                 = LRUCache_get(lru, k, clock).result]_vars

\* set(a), set(b), get(a), set(c) with max_size 2: b was evicted
C34_Witness ==
  /\ op = "set"
  /\ exc = None
  /\ lru.max_size = 2
  /\ lru.hits = 1
  /\ used = <<"b", "a", "c">>
  /\ CacheKeys(lru) = {"a", "c"}
  /\ gone = {"b"}


\* the ttl of the contract: the one passed to set(), else default_ttl
TtlPassed(key) ==
  IF stored[key].ttl = None THEN lru.default_ttl ELSE stored[key].ttl[1]

\* the entry last stored under key was neither evicted nor deleted and its
\* age does not exceed its ttl
Fresh(key) ==
  /\ key \in DOMAIN stored
  /\ key \notin gone
  /\ clock - stored[key].at <= TtlPassed(key)

\* C35: get(key) returns the value most recently stored for key if and
\* only if its entry was not evicted or deleted and its age does not exceed
\* its ttl, the one passed to set(), else default_ttl; otherwise it returns
\* None, and an entry it finds expired is removed from the cache
C35_GetReturnsFreshValue ==
  [][Calls("get") =>
       /\ out' = Some(IF Fresh(arg'[1][1]) THEN Some(stored[arg'[1][1]].data)
                      ELSE None)
       /\ (arg'[1][1] \in CacheKeys(lru) /\ out' = Some(None)) =>
            arg'[1][1] \notin CacheKeys(lru')]_vars


\* C36: on a DataCenterCache built with max_size >= 1, set_kline, set_ticker
\* and set_orderbook return without an exception, and the matching get
\* made right after returns the data stored
C36_SetThenGet ==
  [][/\ Calls("set_kline") =>
          /\ exc' = None
          /\ get_kline(dc', arg'[1][1], arg'[1][2], arg'[1][4], arg'[1][5],
                       arg'[1][6], clock).result = Some(arg'[1][3])
     /\ Calls("set_ticker") =>
          /\ exc' = None
          /\ get_ticker(dc', arg'[1][1], clock).result = Some(arg'[1][2])
     /\ Calls("set_orderbook") =>
          /\ exc' = None
          /\ get_orderbook(dc', arg'[1][1], clock).result = Some(arg'[1][2])
    ]_vars


\* index in fed of the first bar of the aggregate pending after n bars: the
\* bars from it to the n-th are of one period, none but the n-th may close
\* it, and flush() was not called since it was fed
RECURSIVE PendingFrom(_)
PendingFrom(n) ==
  IF /\ n - 1 > flushedAt
     /\ PeriodOf(fed[n - 1].timestamp) = PeriodOf(fed[n].timestamp)
     /\ ~ClosesPeriod(fed[n - 1].timestamp)
  THEN PendingFrom(n - 1)
  ELSE n

\* C37: add(bar) called while a partial aggregate is pending for another
\* period, with a bar that is not the last of its own period, returns the
\* pending aggregate (the prior period's start as timestamp, open, high,
\* low, close and volume of the bars folded into it) and leaves an aggregate
\* of bar alone: pending_count 1, current_period_start bar's period start
C37_PriorPeriodEmitted ==
  [][(/\ op' = "add"
      /\ Len(fed') = Len(fed) + 1
      /\ HasPending
      /\ PeriodOf(LastFed.timestamp) # PeriodOf(fed'[Len(fed')].timestamp)
      /\ ~ClosesPeriod(fed'[Len(fed')].timestamp)) =>
       LET bar == fed'[Len(fed')]
           first == PendingFrom(Len(fed)) IN
       /\ ret' = Some(IndicatorBar(PeriodOf(LastFed.timestamp),
                                   fed[first].open,
                                   MaxHigh(fed, first, Len(fed)),
                                   MinLow(fed, first, Len(fed)),
                                   LastFed.close,
                                   SumVolume(fed, first, Len(fed)),
                                   rs.target_tf))
       /\ rs'.count = 1
       /\ rs'.current_period_start = Some(PeriodOf(bar.timestamp))
       /\ rs'.pending_open = Some(bar.open)
       /\ rs'.pending_high = bar.high
       /\ rs'.pending_low = bar.low
       /\ rs'.pending_close = bar.close
       /\ rs'.pending_volume = bar.volume
       /\ rs'.pending_ts = PeriodOf(bar.timestamp)]_vars

\* two bars of one period were pending when a bar of an earlier period,
\* not its last, was added
C37_Witness ==
  /\ op = "add"
  /\ Len(fed) = 3
  /\ PeriodOf(fed[1].timestamp) = PeriodOf(fed[2].timestamp)
  /\ fed[1].timestamp < fed[2].timestamp
  /\ PeriodOf(fed[3].timestamp) < PeriodOf(fed[2].timestamp)
  /\ ~ClosesPeriod(fed[3].timestamp)
  /\ ret # None
  /\ ret[1].volume = fed[1].volume + fed[2].volume
  /\ ret[1].open # fed[2].open
  /\ rs.count = 1


\* C38: with ratio = target seconds / source seconds and a strictly
\* increasing stream on the source grid, the add() that completes a fully
\* fed period emits with _count equal to ratio, and pending_count between
\* calls is smaller than ratio
C38_CountWithinRatio ==
  /\ [](rs.ratio * rs.source_seconds_ms = rs.target_seconds_ms =>
          rs.count < rs.ratio)
  /\ [][(/\ op' = "add"
         /\ Len(fed') = Len(fed) + 1
         /\ rs.ratio * rs.source_seconds_ms = rs.target_seconds_ms
         /\ StrictlyIncreasing(fed')
         /\ FullPeriodFed') =>
          /\ ret' # None
          /\ ~enters_new_period(rs, fed'[Len(fed')])
          /\ fold_bar(rs, fed'[Len(fed')]).count = rs.ratio
          /\ rs'.count = 0]_vars

\* a second period, fully fed, was emitted
C38_Witness ==
  /\ op = "add"
  /\ FullPeriodFed
  /\ StrictlyIncreasing(fed)
  /\ rs.ratio = 3
  /\ Len(fed) = 5
  /\ Len(emitted) = 2
  /\ ret # None
  /\ rs.count = 0


\* C39: on a strictly increasing stream on the source grid, the bars
\* returned by the add() calls and by a flush() after the last of them have
\* strictly increasing timestamps, and a period emitted by the add() of its
\* last source bar is not emitted again by the call that follows
C39_EmittedOnce ==
  /\ []((/\ StrictlyIncreasing(fed)
         /\ flushes = 0 \/ (flushes = 1 /\ flushedAt = Len(fed)))
          => StrictlyIncreasing(emitted))
  /\ [][(/\ op = "add"
         /\ ret # None
         /\ ClosesPeriod(LastFed.timestamp)
         /\ StrictlyIncreasing(fed')
         /\ flushes = 0) =>
          (ret' = None \/ ret'[1].timestamp > ret[1].timestamp)]_vars

\* flush() after a stream whose last bar closed its period, the third
\* emitted
C39_Witness ==
  /\ op = "flush"
  /\ ret = None
  /\ flushes = 1
  /\ flushedAt = Len(fed)
  /\ Len(fed) > 0
  /\ StrictlyIncreasing(fed)
  /\ ClosesPeriod(LastFed.timestamp)
  /\ Len(emitted) = 3


\* C40: after any register_requirements, update, snapshot and reset calls,
\* the requirements map and the indicators map of the engine have the same
\* ids, and each indicator's requirement is the one stored under its id
C40_RequirementsMatchIndicators ==
  /\ DOMAIN eng.requirements = DOMAIN eng.indicators
  /\ \A id \in DOMAIN eng.indicators :
       eng.indicators[id].requirement = eng.requirements[id]

====
